---- MODULE Spec2Model ----
(***************************************************************************)
(* envcfg: resolution of struct fields from a loaded key/value mapping.    *)
(*                                                                         *)
(* Two layers are modelled:                                                *)
(*   - the key matcher of internal/matcher (Matcher.GetValue over a path   *)
(*     of tag maps), specification Spec;                                   *)
(*   - the tree walker of internal/walker together with the matcher        *)
(*     interface it calls (GetValue/GetPrefix over a struct field and a    *)
(*     prefix list), specification SpecWalk.                               *)
(*                                                                         *)
(* Go strings are sequences of one-character strings.  Ranging over a Go   *)
(* map has no fixed order: every operator that ranges over a map returns   *)
(* the set of results some iteration order can produce.                    *)
(***************************************************************************)
EXTENDS Integers, Sequences, FiniteSets, TLC

VARIABLES
    EnvVars,          \* Matcher.EnvVars: the loaded mapping, key -> value
    Required,         \* Matcher.Required
    NotEmpty,         \* Matcher.NotEmpty
    Expand,           \* Matcher.Expand
    DisableFallback,  \* Matcher.DisableFallback
    path,             \* the []tag.TagMap handed to Matcher.GetValue
    res,              \* what Matcher.GetValue returned
    pc,               \* "ready" before the call, "done" after
    cfgType,          \* the struct type handed to Walk
    initMode,         \* walker.initMode (global)
    cfg,              \* the record Walk fills in
    walkErr,          \* the error Walk returned
    wpc,              \* "ready" before Walk, "done" after, "again" after a
                      \* second Walk, "idle" when unused
    decodeUnset,      \* walker.decodeUnset (WithDecodeUnset)
    cfg2,             \* a second record of the same type, for a second Walk
    walkErr2,         \* the error the second Walk returned
    mapKeys,          \* what Matcher.GetMapKeys returned, as a set
    prefixFound,      \* what Matcher.HasPrefix returned
    sources,          \* env.sources: what each source's Load returns, in
                      \* registration order
    defaults,         \* env.defaults
    filters,          \* env.filters
    transforms,       \* env.transforms
    envs,             \* the mapping env.Load is building
    si,               \* the index of the source env.Load handles next
    lpc               \* where env.Load is: "defaults", "sources", "loaded";
                      \* "idle" when unused

loaderVars == <<sources, defaults, filters, transforms, envs, si, lpc>>

vars == <<EnvVars, Required, NotEmpty, Expand, DisableFallback, path, res, pc,
          cfgType, initMode, cfg, walkErr, wpc, decodeUnset, cfg2, walkErr2, mapKeys,
          prefixFound, loaderVars>>

\* the loader takes no part
LoaderIdle ==
    /\ sources = <<>>
    /\ defaults = <<>>
    /\ filters = <<>>
    /\ transforms = <<>>
    /\ envs = <<>>
    /\ si = 0
    /\ lpc = "idle"

----------------------------------------------------------------------------
(* Bounds                                                                  *)

\* at most this many keys in the loaded mapping handed to the matcher
MaxEnv == 2

----------------------------------------------------------------------------
(* Strings                                                                 *)

LowerLetters == <<"a","b","c","d","e","f","g","h","i","j","k","l","m",
                  "n","o","p","q","r","s","t","u","v","w","x","y","z">>
UpperLetters == <<"A","B","C","D","E","F","G","H","I","J","K","L","M",
                  "N","O","P","Q","R","S","T","U","V","W","X","Y","Z">>
Digits == <<"0","1","2","3","4","5","6","7","8","9">>

IsUpper(c) == \E i \in 1..26 : UpperLetters[i] = c
IsLower(c) == \E i \in 1..26 : LowerLetters[i] = c
IsDigit(c) == \E i \in 1..10 : Digits[i] = c

ToUpperCh(c) ==
    IF IsLower(c) THEN UpperLetters[CHOOSE i \in 1..26 : LowerLetters[i] = c] ELSE c
ToLowerCh(c) ==
    IF IsUpper(c) THEN LowerLetters[CHOOSE i \in 1..26 : UpperLetters[i] = c] ELSE c

ToUpper(s) == [i \in 1..Len(s) |-> ToUpperCh(s[i])]
ToLower(s) == [i \in 1..Len(s) |-> ToLowerCh(s[i])]

HasPrefixStr(s, p) == Len(p) <= Len(s) /\ SubSeq(s, 1, Len(p)) = p
HasSuffixStr(s, p) == Len(p) <= Len(s) /\ SubSeq(s, Len(s) - Len(p) + 1, Len(s)) = p

TrimPrefixStr(s, p) == IF HasPrefixStr(s, p) THEN SubSeq(s, Len(p) + 1, Len(s)) ELSE s
TrimSuffixStr(s, p) == IF HasSuffixStr(s, p) THEN SubSeq(s, 1, Len(s) - Len(p)) ELSE s

\* strings.Index: the 0-based offset of the first occurrence of sub, or -1
IndexStr(s, sub) ==
    LET at == {i \in 0..(Len(s) - Len(sub)) : SubSeq(s, i + 1, i + Len(sub)) = sub}
    IN IF at = {} THEN -1 ELSE CHOOSE i \in at : \A j \in at : i <= j

RECURSIVE JoinStr(_, _)
JoinStr(parts, sep) ==
    IF Len(parts) = 0 THEN <<>>
    ELSE IF Len(parts) = 1 THEN parts[1]
    ELSE parts[1] \o sep \o JoinStr(Tail(parts), sep)

\* strings.Split(s, sep) for a one-character separator
RECURSIVE SplitAcc(_, _, _)
SplitAcc(s, sep, cur) ==
    IF Len(s) = 0 THEN <<cur>>
    ELSE IF Head(s) = sep THEN <<cur>> \o SplitAcc(Tail(s), sep, <<>>)
    ELSE SplitAcc(Tail(s), sep, Append(cur, Head(s)))

Split(s, sep) == SplitAcc(s, sep, <<>>)

\* strconv.Itoa for the indices the walker probes
Itoa(i) == IF i < 10 THEN <<Digits[i + 1]>>
           ELSE <<Digits[(i \div 10) + 1], Digits[(i % 10) + 1]>>

----------------------------------------------------------------------------
(* internal/tag                                                            *)

NoOptions == [o \in {} |-> <<>>]

Tag(name, value, options) == [Name |-> name, Value |-> value, Options |-> options]

RECURSIVE toSnakeCaseFrom(_, _)
toSnakeCaseFrom(s, i) ==
    IF i > Len(s) THEN <<>>
    ELSE LET r == s[i]
             boundary == /\ i > 1
                         /\ IsUpper(r)
                         /\ \/ IsLower(s[i - 1])
                            \/ (i < Len(s) /\ IsLower(s[i + 1]))
         IN (IF boundary THEN <<"_">> ELSE <<>>) \o <<ToLowerCh(r)>>
              \o toSnakeCaseFrom(s, i + 1)

toSnakeCase(s) == toSnakeCaseFrom(s, 1)

\* A struct field is [Name, Type, Tag]; Tag is the field's tag literal, held
\* as the mapping tag name -> Tag that the scanning loop of ParseTags builds.
\* ParseTags adds the two synthesized entries, which replace literal ones of
\* the same name.
ParseTags(rsf) ==
    [FieldName |-> rsf.Name,
     Type      |-> rsf.Type,
     Tags      |-> [n \in (DOMAIN rsf.Tag) \cup {"struct", "struct_snake"} |->
                      IF n = "struct" THEN Tag("struct", rsf.Name, NoOptions)
                      ELSE IF n = "struct_snake"
                           THEN Tag("struct_snake", toSnakeCase(rsf.Name), NoOptions)
                      ELSE rsf.Tag[n]]]

----------------------------------------------------------------------------
(* The filesystem and os.Expand                                            *)

\* the one file that exists, and its contents
FilePath == <<"f">>
FileContents == <<"x", "$", "{", "O", "}">>

FileExists(p) == p = FilePath
ReadFile(p) == FileContents

IsNameCh(c) == IsUpper(c) \/ IsLower(c) \/ IsDigit(c) \/ c = "_"

RECURSIVE NameLen(_, _)
NameLen(s, i) == IF i <= Len(s) /\ IsNameCh(s[i]) THEN 1 + NameLen(s, i + 1) ELSE 0

RECURSIVE IndexOf(_, _, _)
IndexOf(s, c, i) == IF i > Len(s) THEN 0 ELSE IF s[i] = c THEN i ELSE IndexOf(s, c, i + 1)

Lookup(env, k) == IF k \in DOMAIN env THEN env[k] ELSE <<>>

\* os.Expand(s, mapping) for ${NAME} and $NAME references
RECURSIVE OsExpand(_, _, _)
OsExpand(s, env, i) ==
    IF i > Len(s) THEN <<>>
    ELSE IF s[i] # "$" \/ i = Len(s) THEN <<s[i]>> \o OsExpand(s, env, i + 1)
    ELSE IF s[i + 1] = "{"
         THEN LET close == IndexOf(s, "}", i + 2)
              IN IF close = 0 THEN OsExpand(s, env, i + 2)
                 ELSE IF close = i + 2 THEN OsExpand(s, env, i + 3)
                 ELSE Lookup(env, SubSeq(s, i + 2, close - 1))
                        \o OsExpand(s, env, close + 1)
    ELSE LET n == NameLen(s, i + 1)
         IN IF n = 0 THEN <<"$">> \o OsExpand(s, env, i + 1)
            ELSE Lookup(env, SubSeq(s, i + 1, i + n)) \o OsExpand(s, env, i + n + 1)

----------------------------------------------------------------------------
(* internal/matcher: type Matcher                                          *)

TagName == "env"
DefaultTag == "default"
ExpandTag == "expand"
FileTag == "file"
NotEmptyTag == "notempty"
RequiredTag == "required"

NoErr == [kind |-> "none", arg |-> <<>>]
Err(kind, arg) == [kind |-> kind, arg |-> arg]

\* mutant: the snake_case entry is taken for an option tag
isKnownTag_snake(tagName) ==
    tagName \in {TagName, RequiredTag, DefaultTag, ExpandTag, NotEmptyTag, FileTag,
                 "struct_snake"}

isKnownTag(tagName) ==
    tagName \in {TagName, RequiredTag, DefaultTag, ExpandTag, NotEmptyTag, FileTag}

expandValue(value) == OsExpand(value, EnvVars, 1)

\* the later assignment to a key wins
Override(f, g) ==
    [k \in (DOMAIN f) \cup (DOMAIN g) |-> IF k \in DOMAIN g THEN g[k] ELSE f[k]]

OptionTags == {RequiredTag, DefaultTag, ExpandTag, NotEmptyTag, FileTag}

parseOptions(tm) ==
    LET globals == [k \in ((IF Expand THEN {ExpandTag} ELSE {})
                             \cup (IF Required THEN {RequiredTag} ELSE {})
                             \cup (IF NotEmpty THEN {NotEmptyTag} ELSE {}))
                      |-> <<"t", "r", "u", "e">>]
        standalone == [k \in OptionTags \cap DOMAIN tm.Tags |-> tm.Tags[k].Value]
        envOpts == IF TagName \in DOMAIN tm.Tags
                   THEN [k \in OptionTags \cap DOMAIN tm.Tags[TagName].Options |->
                           tm.Tags[TagName].Options[k]]
                   ELSE NoOptions
    IN Override(Override(globals, standalone), envOpts)

fieldPath(p) == JoinStr([i \in 1..Len(p) |-> p[i].FieldName], <<".">>)

NextPrefix(prefix, value) ==
    IF prefix = <<>> THEN value ELSE prefix \o <<"_">> \o value

\* mutant: the fallback tags are tried whatever DisableFallback says
RECURSIVE getValue_fallbackAlways(_, _)
getValue_fallbackAlways(prefix, p) ==
    IF Len(p) = 0
    THEN LET envVarName == ToUpper(prefix)
         IN IF envVarName \in DOMAIN EnvVars
            THEN {[key |-> envVarName, value |-> EnvVars[envVarName]]}
            ELSE {}
    ELSE LET current == p[1]
             rest == Tail(p)
             primary == IF TagName \in DOMAIN current.Tags
                        THEN getValue_fallbackAlways(
                                 NextPrefix(prefix, current.Tags[TagName].Value), rest)
                        ELSE {}
             fallback == {n \in DOMAIN current.Tags :
                            ~(current.Tags[n].Value = <<>> \/ isKnownTag(n))}
         IN IF primary # {} THEN primary
            ELSE UNION {getValue_fallbackAlways(
                            NextPrefix(prefix, current.Tags[n].Value), rest) :
                          n \in fallback}

\* The [key, value] pairs getValue can return; empty when it reports no match.
RECURSIVE getValue(_, _)
getValue(prefix, p) ==
    IF Len(p) = 0
    THEN LET envVarName == ToUpper(prefix)
         IN IF envVarName \in DOMAIN EnvVars
            THEN {[key |-> envVarName, value |-> EnvVars[envVarName]]}
            ELSE {}
    ELSE LET current == p[1]
             rest == Tail(p)
             primary == IF TagName \in DOMAIN current.Tags
                        THEN getValue(NextPrefix(prefix, current.Tags[TagName].Value), rest)
                        ELSE {}
             fallback == {n \in DOMAIN current.Tags :
                            ~(current.Tags[n].Value = <<>> \/ isKnownTag(n) \/ DisableFallback)}
         IN IF primary # {} THEN primary
            ELSE UNION {getValue(NextPrefix(prefix, current.Tags[n].Value), rest) :
                          n \in fallback}

Result(value, found, err) == [value |-> value, found |-> found, err |-> err]

\* GetValue when getValue reported no match
GetValueNotFound(opts, p) ==
    IF RequiredTag \in DOMAIN opts
    THEN Result(<<>>, FALSE, Err("required", fieldPath(p)))
    ELSE IF DefaultTag \in DOMAIN opts
    THEN IF ExpandTag \in DOMAIN opts
         THEN Result(expandValue(opts[DefaultTag]), TRUE, NoErr)
         ELSE Result(opts[DefaultTag], TRUE, NoErr)
    ELSE Result(<<>>, FALSE, NoErr)

\* mutant: expand is applied to the path of the file, not to its contents
GetValueFound_expandPath(opts, m) ==
    IF NotEmptyTag \in DOMAIN opts /\ m.value = <<>>
    THEN Result(<<>>, TRUE, Err("notempty", m.key))
    ELSE IF FileTag \in DOMAIN opts
    THEN IF ExpandTag \in DOMAIN opts
         THEN IF ~FileExists(expandValue(m.value))
              THEN Result(<<>>, TRUE, Err("file", expandValue(m.value)))
              ELSE Result(ReadFile(expandValue(m.value)), TRUE, NoErr)
         ELSE IF ~FileExists(m.value)
         THEN Result(<<>>, TRUE, Err("file", m.value))
         ELSE Result(ReadFile(m.value), TRUE, NoErr)
    ELSE IF ExpandTag \in DOMAIN opts
    THEN Result(expandValue(m.value), TRUE, NoErr)
    ELSE Result(m.value, TRUE, NoErr)

\* GetValue when getValue matched the key m.key holding m.value
GetValueFound(opts, m) ==
    IF NotEmptyTag \in DOMAIN opts /\ m.value = <<>>
    THEN Result(<<>>, TRUE, Err("notempty", m.key))
    ELSE IF FileTag \in DOMAIN opts
    THEN IF ~FileExists(m.value)
         THEN Result(<<>>, TRUE, Err("file", m.value))
         ELSE IF ExpandTag \in DOMAIN opts
         THEN Result(expandValue(ReadFile(m.value)), TRUE, NoErr)
         ELSE Result(ReadFile(m.value), TRUE, NoErr)
    ELSE IF ExpandTag \in DOMAIN opts
    THEN Result(expandValue(m.value), TRUE, NoErr)
    ELSE Result(m.value, TRUE, NoErr)

\* The results GetValue can return for the path.
GetValue(p) ==
    LET opts == parseOptions(p[Len(p)])
        matches == getValue(<<>>, p)
    IN IF matches = {}
       THEN {GetValueNotFound(opts, p)}
       ELSE {GetValueFound(opts, m) : m \in matches}

----------------------------------------------------------------------------
(* Inputs of the matcher specification                                     *)

OneTag(n, v) == [k \in {n} |-> Tag(n, v, NoOptions)]
EnvTag(v, opts) == [k \in {TagName} |-> Tag(TagName, v, opts)]
Flag(o) == [k \in {o} |-> <<>>]
True == <<"t", "r", "u", "e">>
NoTags == [k \in {} |-> Tag("", <<>>, NoOptions)]

Field(name, tags) == [Name |-> name, Type |-> "string", Tag |-> tags]

FooBar == <<"F", "o", "o", "B", "a", "r">>
APIKey == <<"A", "P", "I", "K", "e", "y">>
Port == <<"P", "o", "r", "t">>
App == <<"A", "p", "p">>
Custom == <<"c", "u", "s", "t", "o", "m">>

LeafFields ==
    { Field(FooBar, NoTags),
      Field(APIKey, NoTags),
      Field(Port, NoTags),
      Field(FooBar, EnvTag(Custom, NoOptions)),
      Field(FooBar, OneTag("json", <<"f", "b">>)),
      Field(FooBar, Override(EnvTag(Custom, NoOptions), OneTag("json", <<"f", "b">>))),
      Field(FooBar, OneTag(RequiredTag, True)),
      Field(FooBar, EnvTag(Custom, Flag(RequiredTag))),
      Field(FooBar, EnvTag(<<>>, Flag(RequiredTag))),
      Field(FooBar, Override(OneTag(RequiredTag, True), OneTag(DefaultTag, <<"d">>))),
      Field(FooBar, OneTag(DefaultTag, <<"d">>)),
      Field(FooBar, OneTag(NotEmptyTag, True)),
      Field(FooBar, EnvTag(Custom, Flag(NotEmptyTag))),
      Field(FooBar, Override(OneTag(NotEmptyTag, True), OneTag(DefaultTag, <<>>))),
      Field(FooBar, OneTag(FileTag, True)),
      Field(FooBar, Override(OneTag(FileTag, True), OneTag(DefaultTag, FilePath))),
      Field(FooBar, Override(OneTag(FileTag, True), OneTag(ExpandTag, True))),
      Field(FooBar, Override(OneTag(ExpandTag, True), OneTag(DefaultTag, <<"$", "O">>))) }

ParentFields ==
    { Field(App, NoTags),
      Field(App, EnvTag(<<"s", "v", "c">>, NoOptions)),
      Field(App, OneTag("json", <<"a">>)) }

\* fields that carry a walker tag: FooBar string `init:"always"`, and
\* Port under App struct `init:"values"`
WalkerTagPaths ==
    { <<ParseTags(Field(FooBar, OneTag("init", <<"a","l","w","a","y","s">>)))>>,
      <<ParseTags(Field(App, OneTag("init", <<"v","a","l","u","e","s">>))),
        ParseTags(Field(Port, NoTags))>> }

\* Port under App struct `env:",init=always"`
OptionsOnlyPaths ==
    { <<ParseTags(Field(App, EnvTag(<<>>, [o \in {"init"} |-> <<"a","l","w","a","y","s">>]))),
        ParseTags(Field(Port, NoTags))>> }

Paths ==
    {<<ParseTags(l)>> : l \in LeafFields}
      \cup {<<ParseTags(a), ParseTags(l)>> : a \in ParentFields, l \in LeafFields}
      \cup WalkerTagPaths
      \cup OptionsOnlyPaths

\* every non-empty tag value of a level, whatever the tag
LevelNames(tm) == {tm.Tags[n].Value : n \in DOMAIN tm.Tags} \ {<<>>}

RECURSIVE JoinedNames(_)
JoinedNames(p) ==
    IF Len(p) = 1 THEN {ToUpper(v) : v \in LevelNames(p[1])}
    ELSE {ToUpper(v) \o <<"_">> \o r : v \in LevelNames(p[1]), r \in JoinedNames(Tail(p))}

\* the keys the loaded mapping is drawn from: every join of tag values along
\* the path, the leaf names without their ancestors, and unrelated keys
KeysFor(p) ==
    JoinedNames(p) \cup JoinedNames(<<p[Len(p)]>>)
      \cup {<<"O">>, <<"F", "O", "O">>, <<"f", "o", "o", "_", "b", "a", "r">>}

EnvValues == {<<>>, FilePath, <<"$", "{", "O", "}">>}

EnvsOver(keys, n) ==
    UNION {[S -> EnvValues] : S \in {T \in SUBSET keys : Cardinality(T) <= n}}

GlobalFlags ==
    { [r |-> FALSE, n |-> FALSE, e |-> FALSE, d |-> FALSE],
      [r |-> TRUE,  n |-> FALSE, e |-> FALSE, d |-> FALSE],
      [r |-> FALSE, n |-> TRUE,  e |-> FALSE, d |-> FALSE],
      [r |-> FALSE, n |-> FALSE, e |-> TRUE,  d |-> FALSE],
      [r |-> FALSE, n |-> FALSE, e |-> FALSE, d |-> TRUE] }

NoResult == Result(<<>>, FALSE, NoErr)

Init ==
    /\ path \in Paths
    /\ EnvVars \in EnvsOver(KeysFor(path), MaxEnv)
    /\ \E g \in GlobalFlags :
        /\ Required = g.r
        /\ NotEmpty = g.n
        /\ Expand = g.e
        /\ DisableFallback = g.d
    /\ res = NoResult
    /\ pc = "ready"
    /\ cfgType = "none"
    /\ initMode = "none"
    /\ cfg = <<>>
    /\ walkErr = NoErr
    /\ wpc = "idle"
    /\ decodeUnset = FALSE
    /\ cfg2 = <<>>
    /\ walkErr2 = NoErr
    /\ mapKeys = {}
    /\ prefixFound = FALSE
    /\ LoaderIdle

\* one call of Matcher.GetValue(path)
Resolve ==
    /\ pc = "ready"
    /\ \E r \in GetValue(path) : res' = r
    /\ pc' = "done"
    /\ UNCHANGED <<EnvVars, Required, NotEmpty, Expand, DisableFallback, path,
                   cfgType, initMode, cfg, walkErr, wpc, decodeUnset, cfg2, walkErr2,
                   mapKeys, prefixFound, loaderVars>>

Next == Resolve

Spec == Init /\ [][Next]_vars

----------------------------------------------------------------------------
(* internal/matcher: type matcher, the matcher behind the walker's Matcher *)
(* interface (GetValue and GetPrefix over a struct field and the prefixes  *)
(* of its ancestors).  Its envVars and disableFallback are EnvVars and     *)
(* DisableFallback.                                                        *)

MatchTag == "match"
defaultMatch == "prefix"

MatcherOptionTags == {MatchTag, RequiredTag, DefaultTag, ExpandTag, NotEmptyTag, FileTag}

matcherParseOptions(tags) ==
    LET standalone == [k \in MatcherOptionTags \cap DOMAIN tags |-> tags[k].Value]
        envOpts == IF TagName \in DOMAIN tags
                   THEN [k \in MatcherOptionTags \cap DOMAIN tags[TagName].Options |->
                           tags[TagName].Options[k]]
                   ELSE NoOptions
    IN Override(standalone, envOpts)

getMatchType(opts) ==
    IF MatchTag \in DOMAIN opts
    THEN (IF opts[MatchTag] = <<"e","x","a","c","t">> THEN "exact"
          ELSE IF opts[MatchTag] = <<"b","e","s","t">> THEN "best"
          ELSE IF opts[MatchTag] = <<"p","r","e","f","i","x">> THEN "prefix"
          ELSE "other")
    ELSE defaultMatch

Reverse(seq) == [i \in 1..Len(seq) |-> seq[Len(seq) + 1 - i]]

toPrefixSets(prefixes) ==
    (IF Len(prefixes) > 1 THEN <<JoinStr(prefixes, <<"_">>)>> ELSE <<>>)
      \o Reverse(prefixes) \o << <<>> >>

toEnvVarName(prefixes, tag) ==
    IF Len(prefixes) = 0 THEN ToUpper(tag)
    ELSE LET prefix == JoinStr(prefixes, <<"_">>)
         IN IF prefix = <<>> THEN ToUpper(tag)
            ELSE ToUpper(prefix \o <<"_">> \o tag)

KeyMatch(k) == IF k \in DOMAIN EnvVars THEN {[key |-> k, value |-> EnvVars[k]]} ELSE {}

RECURSIVE FirstMatch(_)
FirstMatch(keys) ==
    IF Len(keys) = 0 THEN {}
    ELSE IF KeyMatch(Head(keys)) # {} THEN KeyMatch(Head(keys))
    ELSE FirstMatch(Tail(keys))

\* matcher.getValue: the match for one tag value, empty when there is none
matcherGetValueFor(matchType, fieldName, prefixes) ==
    LET name == ToUpper(fieldName)
    IN CASE matchType = "exact"  -> KeyMatch(name)
         [] matchType = "prefix" -> KeyMatch(toEnvVarName(prefixes, name))
         [] matchType = "best"   ->
              FirstMatch([i \in 1..Len(toPrefixSets(prefixes)) |->
                            toEnvVarName(<<toPrefixSets(prefixes)[i]>>, name)])
         [] OTHER -> {}

\* matcher.GetValue when no tag matched
matcherGetValueNotFound(opts, rsf) ==
    IF RequiredTag \in DOMAIN opts
    THEN Result(<<>>, FALSE, Err("required", rsf.Name))
    ELSE IF DefaultTag \in DOMAIN opts
    THEN IF ExpandTag \in DOMAIN opts
         THEN Result(expandValue(opts[DefaultTag]), TRUE, NoErr)
         ELSE Result(opts[DefaultTag], TRUE, NoErr)
    ELSE Result(<<>>, FALSE, NoErr)

\* The results matcher.GetValue can return.  The range over the tags keeps
\* the last match it meets, and any matching tag can come last.
matcherGetValue(rsf, prefixes) ==
    LET parsedTags == ParseTags(rsf).Tags
        opts == matcherParseOptions(parsedTags)
        tried == {n \in DOMAIN parsedTags : ~(DisableFallback /\ n # TagName)}
        matches == UNION {matcherGetValueFor(getMatchType(opts), parsedTags[n].Value,
                                             prefixes) : n \in tried}
    IN IF matches = {}
       THEN {matcherGetValueNotFound(opts, rsf)}
       ELSE {GetValueFound(opts, m) : m \in matches}

SomeKeyHasPrefix(p) == \E k \in DOMAIN EnvVars : HasPrefixStr(k, p)

\* The prefixes matcher.GetPrefix can return: the range returns at the first
\* tag for which some key starts with its name, and any such tag can come
\* first.
matcherGetPrefix(rsf, prefixes) ==
    LET parsedTags == ParseTags(rsf).Tags
        opts == matcherParseOptions(parsedTags)
        mt == getMatchType(opts)
        hit(v) ==
            CASE mt = "exact"  -> SomeKeyHasPrefix(ToUpper(v))
              [] mt = "prefix" -> SomeKeyHasPrefix(toEnvVarName(prefixes, v))
              [] mt = "best"   ->
                   \E i \in 1..Len(toPrefixSets(prefixes)) :
                       SomeKeyHasPrefix(toEnvVarName(<<toPrefixSets(prefixes)[i]>>, v))
              [] OTHER -> FALSE
        hits == {n \in DOMAIN parsedTags :
                    /\ parsedTags[n].Value # <<>>
                    /\ ~(DisableFallback /\ n # TagName)
                    /\ hit(parsedTags[n].Value)}
    IN IF hits = {} THEN {ToUpper(rsf.Name)}
       ELSE {ToUpper(parsedTags[n].Value) : n \in hits}

----------------------------------------------------------------------------
(* Types and values of the records handed to Walk                          *)

StringT == [kind |-> "string"]
IntT == [kind |-> "int"]
PtrT(e) == [kind |-> "ptr", elem |-> e]
SliceT(e) == [kind |-> "slice", elem |-> e]
StructT(fields) == [kind |-> "struct", fields |-> fields]
\* map[string]e
MapT(e) == [kind |-> "map", elem |-> e]
\* struct{ Value string } with an UnmarshalText method: unset, unmarshaler or
\* unmarshalError
DecoderT(impl) == [kind |-> "decoder", impl |-> impl]

NilPtr == [nil |-> TRUE]
PtrTo(v) == [nil |-> FALSE, v |-> v]
NilSlice == [isnil |-> TRUE, elems |-> <<>>]
SliceOf(elems) == [isnil |-> FALSE, elems |-> elems]
NilMap == [isnil |-> TRUE, entries |-> <<>>]
MapOf(entries) == [isnil |-> FALSE, entries |-> entries]
\* reflect.Value.SetMapIndex
SetMapIndex(rv, k, v) == MapOf(Override(rv.entries, [x \in {k} |-> v]))

\* reflect.New(t).Elem()
RECURSIVE Zero(_)
Zero(t) ==
    CASE t.kind = "string" -> <<>>
      [] t.kind = "int"    -> 0
      [] t.kind = "ptr"    -> NilPtr
      [] t.kind = "slice"  -> NilSlice
      [] t.kind = "map"    -> NilMap
      [] t.kind = "decoder" -> [Value |-> <<>>, decoded |-> <<>>]
      [] t.kind = "struct" -> [i \in 1..Len(t.fields) |-> Zero(t.fields[i].Type)]

\* reflect.Value.IsZero
RECURSIVE IsZeroValue(_, _)
IsZeroValue(t, v) ==
    CASE t.kind = "string" -> v = <<>>
      [] t.kind = "int"    -> v = 0
      [] t.kind = "ptr"    -> v.nil
      [] t.kind = "slice"  -> v.isnil
      [] t.kind = "map"    -> v.isnil
      [] t.kind = "decoder" -> v.Value = <<>>
      [] t.kind = "struct" -> \A i \in 1..Len(t.fields) : IsZeroValue(t.fields[i].Type, v[i])

isZero(t, v) ==
    IF t.kind = "slice" THEN Len(v.elems) = 0
    ELSE IF t.kind = "map" THEN DOMAIN v.entries = {}
    ELSE IsZeroValue(t, v)

----------------------------------------------------------------------------
(* matcher.GetMapKeys                                                      *)

getMapKey(matchType, name, envVarName, prefixes) ==
    LET fieldName == ToUpper(name)
        trim(prefix) == ToLower(TrimSuffixStr(TrimPrefixStr(envVarName, prefix \o <<"_">>),
                                              <<"_">> \o fieldName))
        fits(prefix) == HasPrefixStr(envVarName, prefix) /\ HasSuffixStr(envVarName, fieldName)
        sets == [i \in 1..Len(toPrefixSets(prefixes)) |-> ToUpper(toPrefixSets(prefixes)[i])]
        hits == {i \in 1..Len(sets) : fits(sets[i])}
    IN CASE matchType = "exact" ->
              IF HasSuffixStr(envVarName, fieldName)
              THEN ToLower(TrimSuffixStr(envVarName, <<"_">> \o fieldName))
              ELSE <<>>
         [] matchType = "prefix" ->
              IF fits(ToUpper(JoinStr(prefixes, <<"_">>)))
              THEN trim(ToUpper(JoinStr(prefixes, <<"_">>)))
              ELSE <<>>
         [] matchType = "best" ->
              IF hits = {} THEN <<>>
              ELSE trim(sets[CHOOSE i \in hits : \A j \in hits : i <= j])
         [] OTHER -> <<>>

\* the range over the tags of one element field, in any order
RECURSIVE matcherScanTags(_, _, _, _, _)
matcherScanTags(best, names, tags, envVarName, prefixes) ==
    IF names = {} THEN {best}
    ELSE UNION {matcherScanTags(
                    IF DisableFallback /\ n # TagName THEN best
                    ELSE LET mapKey == getMapKey(getMatchType(matcherParseOptions(tags)),
                                                 tags[n].Value, envVarName, prefixes)
                         IN IF mapKey # <<>> /\ Len(tags[n].Value) > best.longestMatch
                            THEN [bestKey |-> mapKey, longestMatch |-> Len(tags[n].Value)]
                            ELSE best,
                    names \ {n}, tags, envVarName, prefixes) : n \in names}

RECURSIVE matcherScanFields(_, _, _, _, _)
matcherScanFields(best, fields, i, envVarName, prefixes) ==
    IF i > Len(fields) THEN {best.bestKey}
    ELSE LET tags == ParseTags(fields[i]).Tags
         IN UNION {matcherScanFields(b, fields, i + 1, envVarName, prefixes) :
                     b \in matcherScanTags(best, DOMAIN tags, tags, envVarName, prefixes)}

matcherFindLongestMatchingKey(rte, envVarName, prefixes) ==
    matcherScanFields([bestKey |-> <<>>, longestMatch |-> 0], rte.fields, 1,
                      envVarName, prefixes)

\* The sets of keys matcher.GetMapKeys can return (the order of the returned
\* slice is that of a map range; the callers range over it).
matcherGetMapKeys(rsf, prefixes) ==
    LET loaded == DOMAIN EnvVars
        rte == rsf.Type.elem
        opts == matcherParseOptions(ParseTags(rsf).Tags)
    IN IF rte.kind # "struct"
       THEN {{getMapKey(getMatchType(opts), <<>>, k, prefixes) : k \in loaded} \ {<<>>}}
       ELSE UNION {
              LET of(k) == matcherFindLongestMatchingKey(rte, k, Append(prefixes, prefix))
                  all == UNION {of(k) : k \in loaded}
              IN {{f[k] : k \in loaded} \ {<<>>} :
                    f \in {g \in [loaded -> all] : \A k \in loaded : g[k] \in of(k)}}
              : prefix \in matcherGetPrefix(rsf, prefixes)}

----------------------------------------------------------------------------
(* internal/parser and internal/walker                                     *)

\* the walker stops probing indices here; a walk that gets this far has not
\* returned
MaxIndex == 4

delimTag == "delim"
defaultDelim == <<",">>
sepTag == "sep"
defaultSep == <<":">>
initTag == "init"
ignoreTag == "ignore"
decodeUnsetTag == "decodeunset"

Outcome(rv, err) == [rv |-> rv, err |-> err]

RECURSIVE DigitsValue(_)
DigitsValue(s) ==
    IF Len(s) = 0 THEN 0
    ELSE 10 * DigitsValue(SubSeq(s, 1, Len(s) - 1))
           + ((CHOOSE i \in 1..10 : Digits[i] = s[Len(s)]) - 1)

\* the kind parsers for string and int; nil stands for "no value produced"
ParseKind(kind, value) ==
    IF value = <<>> THEN [nil |-> TRUE, err |-> NoErr]
    ELSE IF kind = "string" THEN [nil |-> FALSE, v |-> value, err |-> NoErr]
    ELSE LET signed == value[1] \in {"+", "-"}
             digits == IF signed THEN Tail(value) ELSE value
         IN IF Len(digits) > 0 /\ \A i \in 1..Len(digits) : IsDigit(digits[i])
            THEN [nil |-> FALSE, err |-> NoErr,
                  v |-> IF value[1] = "-" THEN 0 - DigitsValue(digits)
                        ELSE DigitsValue(digits)]
            ELSE [nil |-> TRUE, err |-> Err("syntax", value)]

HasParser(t) == t.kind \in {"string", "int"}

hasParserOrSetter(t) ==
    IF t.kind = "decoder" THEN TRUE
    ELSE IF t.kind = "ptr" THEN HasParser(t.elem)
    ELSE HasParser(t)

\* the UnmarshalText methods of the decoder-backed types; decoded keeps the
\* texts the method has been called with on this value
HelloWorld == <<"H", "e", "l", "l", "o", " ", "W", "o", "r", "l", "d", "!">>
Decode(rv, t, text) ==
    CASE t.impl = "unset" ->
           Outcome([Value |-> HelloWorld, decoded |-> Append(rv.decoded, text)], NoErr)
      [] t.impl = "unmarshaler" ->
           Outcome([Value |-> text, decoded |-> Append(rv.decoded, text)], NoErr)
      [] OTHER -> Outcome(rv, Err("error", <<>>))

parseField(rv, t, value) ==
    IF t.kind = "decoder" THEN Decode(rv, t, value)
    ELSE IF ~HasParser(t) THEN Outcome(rv, NoErr)
    ELSE LET r == ParseKind(t.kind, value)
         IN IF r.err # NoErr THEN Outcome(rv, r.err)
            ELSE IF r.nil THEN Outcome(rv, NoErr)
            ELSE Outcome(r.v, NoErr)

InitModes == {"always", "never", "values"}

ModeOf(literal) ==
    IF literal = <<"a","l","w","a","y","s">> THEN "always"
    ELSE IF literal = <<"n","e","v","e","r">> THEN "never"
    ELSE IF literal = <<"v","a","l","u","e","s">> THEN "values"
    ELSE "unknown"

\* mutant: only the init option of the env tag selects a field's mode
parseInitMode_optionOnly(tags) ==
    IF /\ TagName \in DOMAIN tags
       /\ initTag \in DOMAIN tags[TagName].Options
       /\ ModeOf(tags[TagName].Options[initTag]) \in InitModes
    THEN ModeOf(tags[TagName].Options[initTag])
    ELSE initMode

parseInitMode(tags) ==
    LET fromTag == IF initTag \in DOMAIN tags /\ ModeOf(tags[initTag].Value) \in InitModes
                   THEN ModeOf(tags[initTag].Value) ELSE initMode
    IN IF /\ TagName \in DOMAIN tags
          /\ initTag \in DOMAIN tags[TagName].Options
          /\ ModeOf(tags[TagName].Options[initTag]) \in InitModes
       THEN ModeOf(tags[TagName].Options[initTag])
       ELSE fromTag

\* mutant: only the standalone tag marks a field as ignored
parseIgnoreOption_tagOnly(tags) == ignoreTag \in DOMAIN tags

parseIgnoreOption(tags) ==
    \/ ignoreTag \in DOMAIN tags
    \/ /\ TagName \in DOMAIN tags
       /\ \/ tags[TagName].Value = <<"-">>
          \/ ignoreTag \in DOMAIN tags[TagName].Options

parseDecodeUnsetOption(tags) ==
    \/ decodeUnsetTag \in DOMAIN tags
    \/ (TagName \in DOMAIN tags /\ decodeUnsetTag \in DOMAIN tags[TagName].Options)

\* mutant: the always mode still requires a non-zero value
setIfNeeded_alwaysNeedsValue(temp, tempT, rv, rsf) ==
    LET mode == parseInitMode(ParseTags(rsf).Tags)
    IN IF mode = "never" THEN rv
       ELSE IF isZero(tempT, temp) THEN rv
       ELSE IF rsf.Type.kind = "ptr" THEN PtrTo(temp)
       ELSE temp

\* the value of the field after setIfNeeded(temp, rv, rsf)
setIfNeeded(temp, tempT, rv, rsf) ==
    LET mode == parseInitMode(ParseTags(rsf).Tags)
    IN IF mode = "never" THEN rv
       ELSE IF mode = "values" /\ isZero(tempT, temp) THEN rv
       ELSE IF rsf.Type.kind = "ptr" THEN PtrTo(temp)
       ELSE temp

\* reflect.StructTag.Get for a tag literal without a comma
TagGet(rsf, name) == IF name \in DOMAIN rsf.Tag THEN rsf.Tag[name].Value ELSE <<>>

parseStructField(rv, t, rsf, pfx) ==
    {IF r.err # NoErr THEN Outcome(rv, r.err)
     ELSE IF ~r.found /\ ~parseDecodeUnsetOption(ParseTags(rsf).Tags) THEN Outcome(rv, NoErr)
     ELSE parseField(rv, t, r.value)
     : r \in matcherGetValue(rsf, pfx)}

RECURSIVE parseDelimitedParts(_, _, _)
parseDelimitedParts(rv, t, parts) ==
    IF Len(parts) = 0 THEN Outcome(rv, NoErr)
    ELSE LET o == parseField(Zero(t.elem), t.elem, Head(parts))
         IN IF o.err # NoErr THEN Outcome(rv, o.err)
            ELSE parseDelimitedParts(SliceOf(Append(rv.elems, o.rv)), t, Tail(parts))

parseDelimitedSlice(rv, t, rsf, value) ==
    LET delim == IF TagGet(rsf, delimTag) = <<>> THEN defaultDelim
                 ELSE TagGet(rsf, delimTag)
    IN parseDelimitedParts(rv, t, Split(value, delim[1]))

RECURSIVE walkStruct(_, _, _)
RECURSIVE walkStructFrom(_, _, _, _)
RECURSIVE walkStructFrom_keepGoing(_, _, _, _)
RECURSIVE walkStructField(_, _, _)
RECURSIVE walkNestedStructField(_, _, _, _)
RECURSIVE walkSlice(_, _, _, _, _)
RECURSIVE walkSliceFrom(_, _, _, _, _, _)
RECURSIVE walkMap(_, _, _, _, _)
RECURSIVE parseMapOfStructsOver(_, _, _, _)

\* mutant: after a failing field the remaining fields are still walked
walkStructFrom_keepGoing(rv, t, pfx, i) ==
    IF i > Len(t.fields) THEN {Outcome(rv, NoErr)}
    ELSE IF ~IsUpper(t.fields[i].Name[1]) THEN walkStructFrom_keepGoing(rv, t, pfx, i + 1)
    ELSE UNION {IF o.err # NoErr
                THEN {Outcome(later.rv, o.err) :
                        later \in walkStructFrom_keepGoing(rv, t, pfx, i + 1)}
                ELSE walkStructFrom_keepGoing([rv EXCEPT ![i] = o.rv], t, pfx, i + 1)
                : o \in walkStructField(rv[i], t.fields[i], pfx)}

\* the loop of walkStruct from field i on
walkStructFrom(rv, t, pfx, i) ==
    IF i > Len(t.fields) THEN {Outcome(rv, NoErr)}
    ELSE IF ~IsUpper(t.fields[i].Name[1]) THEN walkStructFrom(rv, t, pfx, i + 1)
    ELSE UNION {IF o.err # NoErr THEN {Outcome([rv EXCEPT ![i] = o.rv], o.err)}
                ELSE walkStructFrom([rv EXCEPT ![i] = o.rv], t, pfx, i + 1)
                : o \in walkStructField(rv[i], t.fields[i], pfx)}

walkStruct(rv, t, pfx) == walkStructFrom(rv, t, pfx, 1)

walkStructField(rv, rsf, pfx) ==
    IF parseIgnoreOption(ParseTags(rsf).Tags) THEN {Outcome(rv, NoErr)}
    ELSE IF rsf.Type.kind = "ptr" /\ ~rv.nil
    THEN {Outcome(rv, Err("panic", rsf.Name))}
    ELSE LET tempT == IF rsf.Type.kind = "ptr" THEN rsf.Type.elem ELSE rsf.Type
             temp == Zero(tempT)
             walked == IF hasParserOrSetter(tempT)
                       THEN parseStructField(temp, tempT, rsf, pfx)
                       ELSE walkNestedStructField(temp, tempT, rsf, pfx)
         IN {IF o.err # NoErr THEN Outcome(rv, o.err)
             ELSE Outcome(setIfNeeded(o.rv, tempT, rv, rsf), NoErr)
             : o \in walked}

walkNestedStructField(rv, t, rsf, pfx) ==
    UNION {CASE t.kind = "struct" -> walkStruct(rv, t, Append(pfx, prefix))
             [] t.kind = "slice"  -> walkSlice(rv, t, rsf, prefix, pfx)
             [] t.kind = "map"    -> walkMap(rv, t, rsf, prefix, pfx)
             [] OTHER -> {Outcome(rv, NoErr)}
           : prefix \in matcherGetPrefix(rsf, pfx)}

walkSlice(rv, t, rsf, fieldName, pfx) ==
    UNION {IF r.err # NoErr THEN {Outcome(SliceOf(<<>>), r.err)}
           ELSE IF r.value # <<>> THEN {parseDelimitedSlice(SliceOf(<<>>), t, rsf, r.value)}
           ELSE walkSliceFrom(SliceOf(<<>>), t, rsf, fieldName, pfx, 0)
           : r \in matcherGetValue(rsf, pfx)}

\* the loop of walkSlice from index i on
walkSliceFrom(rv, t, rsf, fieldName, pfx, i) ==
    IF i >= MaxIndex THEN {Outcome(rv, Err("unbounded", fieldName))}
    ELSE LET prefix == fieldName \o <<"_">> \o Itoa(i)
             tmp == [Name |-> prefix, Type |-> t.elem, Tag |-> rsf.Tag]
             elem == Zero(t.elem)
         IN IF t.elem.kind # "struct"
            THEN UNION {IF r.err # NoErr \/ ~r.found THEN {Outcome(rv, r.err)}
                        ELSE LET o == parseField(elem, t.elem, r.value)
                             IN IF o.err # NoErr THEN {Outcome(rv, o.err)}
                                ELSE walkSliceFrom(SliceOf(Append(rv.elems, o.rv)), t, rsf,
                                                   fieldName, pfx, i + 1)
                        : r \in matcherGetValue(tmp, pfx)}
            ELSE UNION {IF o.err # NoErr THEN {Outcome(rv, o.err)}
                        ELSE IF isZero(t.elem, o.rv) THEN {Outcome(rv, NoErr)}
                        ELSE walkSliceFrom(SliceOf(Append(rv.elems, o.rv)), t, rsf,
                                           fieldName, pfx, i + 1)
                        : o \in walkStruct(elem, t.elem, Append(pfx, prefix))}

\* mutant: a pair without the separator is skipped
RECURSIVE parseDelimitedPairs_skipMalformed(_, _, _, _)
parseDelimitedPairs_skipMalformed(rv, t, parts, sep) ==
    IF Len(parts) = 0 THEN Outcome(rv, NoErr)
    ELSE LET part == Head(parts)
             at == IndexStr(part, sep)
             k == parseField(<<>>, StringT, SubSeq(part, 1, at))
             v == parseField(Zero(t.elem), t.elem, SubSeq(part, at + Len(sep) + 1, Len(part)))
         IN IF at < 0 THEN parseDelimitedPairs_skipMalformed(rv, t, Tail(parts), sep)
            ELSE IF k.err # NoErr THEN Outcome(rv, k.err)
            ELSE IF v.err # NoErr THEN Outcome(rv, v.err)
            ELSE parseDelimitedPairs_skipMalformed(SetMapIndex(rv, k.rv, v.rv), t,
                                                   Tail(parts), sep)

\* the loop of parseDelimitedMap over the parts
RECURSIVE parseDelimitedPairs(_, _, _, _)
parseDelimitedPairs(rv, t, parts, sep) ==
    IF Len(parts) = 0 THEN Outcome(rv, NoErr)
    ELSE LET part == Head(parts)
             at == IndexStr(part, sep)
             k == parseField(<<>>, StringT, SubSeq(part, 1, at))
             v == parseField(Zero(t.elem), t.elem, SubSeq(part, at + Len(sep) + 1, Len(part)))
         IN IF at < 0 THEN Outcome(rv, Err("invalid map format", part))
            ELSE IF k.err # NoErr THEN Outcome(rv, k.err)
            ELSE IF v.err # NoErr THEN Outcome(rv, v.err)
            ELSE parseDelimitedPairs(SetMapIndex(rv, k.rv, v.rv), t, Tail(parts), sep)

parseDelimitedMap(rv, t, rsf, value) ==
    LET delim == IF TagGet(rsf, delimTag) = <<>> THEN defaultDelim ELSE TagGet(rsf, delimTag)
        sep == IF TagGet(rsf, sepTag) = <<>> THEN defaultSep ELSE TagGet(rsf, sepTag)
    IN parseDelimitedPairs(rv, t, Split(value, delim[1]), sep)

\* the loop of parseMapOfStructs over the keys not yet visited, in any order
parseMapOfStructsOver(rv, t, keys, pfx) ==
    IF keys = {} THEN {Outcome(rv, NoErr)}
    ELSE UNION {UNION {IF o.err # NoErr THEN {Outcome(rv, o.err)}
                       ELSE parseMapOfStructsOver(
                                SetMapIndex(rv, parseField(<<>>, StringT, key).rv, o.rv),
                                t, keys \ {key}, pfx)
                       : o \in walkStruct(Zero(t.elem), t.elem, Append(pfx, key))}
                : key \in keys}

parseMapOfStructs(rv, t, rsf, fieldName, pfx) ==
    UNION {parseMapOfStructsOver(rv, t, keys, Append(pfx, fieldName)) :
             keys \in matcherGetMapKeys(rsf, pfx)}

\* the loop of parseMap over the keys not yet visited, in any order
RECURSIVE parseMapOver(_, _, _, _, _)
parseMapOver(rv, t, rsf, keys, pfx) ==
    IF keys = {} THEN {Outcome(rv, NoErr)}
    ELSE UNION {UNION {
                  LET newKey == parseField(<<>>, StringT, key).rv
                      o == parseField(Zero(t.elem), t.elem, r.value)
                  IN IF r.err # NoErr THEN {Outcome(rv, r.err)}
                     ELSE IF ~r.found /\ ~parseDecodeUnsetOption(ParseTags(rsf).Tags)
                     THEN parseMapOver(rv, t, rsf, keys \ {key}, pfx)
                     ELSE IF o.err # NoErr THEN {Outcome(rv, o.err)}
                     ELSE parseMapOver(SetMapIndex(rv, newKey, o.rv), t, rsf,
                                       keys \ {key}, pfx)
                  : r \in matcherGetValue([Name |-> key, Type |-> t.elem, Tag |-> rsf.Tag],
                                          pfx)}
                : key \in keys}

parseMap(rv, t, rsf, fieldName, pfx) ==
    UNION {parseMapOver(rv, t, rsf, keys, Append(pfx, fieldName)) :
             keys \in matcherGetMapKeys(rsf, Append(pfx, fieldName))}

walkMap(rv, t, rsf, fieldName, pfx) ==
    LET made == IF rv.isnil THEN MapOf(rv.entries) ELSE rv
    IN UNION {IF r.err # NoErr THEN {Outcome(made, r.err)}
              ELSE IF r.value # <<>> THEN {parseDelimitedMap(made, t, rsf, r.value)}
              ELSE IF t.elem.kind = "struct"
              THEN parseMapOfStructs(made, t, rsf, fieldName, pfx)
              ELSE parseMap(made, t, rsf, fieldName, pfx)
              : r \in matcherGetValue(rsf, pfx)}

----------------------------------------------------------------------------
(* Walk over a bounded family of configuration records                     *)

\* the most keys loaded for one walk
MaxWalkEnv == 3

PtrName == <<"P","t","r">>
ValueName == <<"V","a","l","u","e">>
SliceName == <<"S","l","i","c","e">>
MapName == <<"M">>

AlwaysLit == <<"a","l","w","a","y","s">>
NeverLit == <<"n","e","v","e","r">>
ValuesLit == <<"v","a","l","u","e","s">>
AnyLit == <<"a","n","y">>

TField(name, type, tags) == [Name |-> name, Type |-> type, Tag |-> tags]

\* struct { Value string `default:"d"` } and struct { Value string }
InnerDefault == StructT(<<TField(ValueName, StringT, OneTag(DefaultTag, <<"d">>))>>)
InnerPlain == StructT(<<TField(ValueName, StringT, NoTags)>>)

InitTags == {NoTags, OneTag(initTag, AlwaysLit), OneTag(initTag, NeverLit)}

PtrStructTypes ==
    {StructT(<<TField(PtrName, PtrT(InnerDefault), tags)>>) :
        tags \in InitTags \cup {OneTag(initTag, ValuesLit), OneTag(initTag, AnyLit)}}
    \cup {StructT(<<TField(PtrName, PtrT(InnerPlain), tags)>>) : tags \in InitTags}

PtrLeafTypes ==
    {StructT(<<TField(ValueName, PtrT(StringT), tags)>>) : tags \in InitTags}
    \cup {StructT(<<TField(ValueName, PtrT(IntT), tags)>>) :
            tags \in {NoTags, OneTag(initTag, AlwaysLit)}}

SliceTypes ==
    {StructT(<<TField(SliceName, SliceT(e), NoTags)>>) : e \in {StringT, IntT, InnerPlain}}

\* struct { M map[string]string }, struct { M map[string]struct{ Value string } }
\* and struct { M map[string]struct{ Value string `default:"d"` } }
MapTypes ==
    {StructT(<<TField(MapName, MapT(e), NoTags)>>) : e \in {StringT, InnerPlain, InnerDefault}}

\* struct { FooBar string }
FallbackTypes == {StructT(<<TField(FooBar, StringT, NoTags)>>)}

\* struct { Port int; Value string }, struct { Value string; Port int },
\* struct { Port int; Other int } and
\* struct { Inner struct { Value string; Port int }; Other int }
OtherName == <<"O", "t", "h", "e", "r">>
InnerName == <<"I", "n", "n", "e", "r">>
OrderTypes ==
    { StructT(<<TField(Port, IntT, NoTags), TField(ValueName, StringT, NoTags)>>),
      StructT(<<TField(ValueName, StringT, NoTags), TField(Port, IntT, NoTags)>>),
      StructT(<<TField(Port, IntT, NoTags), TField(OtherName, IntT, NoTags)>>),
      StructT(<<TField(InnerName,
                       StructT(<<TField(ValueName, StringT, NoTags),
                                 TField(Port, IntT, NoTags)>>), NoTags),
                TField(OtherName, IntT, NoTags)>>) }

\* the leaves of a record of struct and leaf fields in depth-first declaration
\* order: the key of each, its type and the top-level field it lies in
RECURSIVE LeavesFrom(_, _)
LeavesFrom(t, i) ==
    IF i > Len(t.fields) THEN <<>>
    ELSE LET f == t.fields[i]
             own == IF f.Type.kind = "struct"
                    THEN [j \in 1..Len(f.Type.fields) |->
                            [key |-> ToUpper(f.Name) \o <<"_">> \o ToUpper(f.Type.fields[j].Name),
                             type |-> f.Type.fields[j].Type, top |-> i, sub |-> j]]
                    ELSE <<[key |-> ToUpper(f.Name), type |-> f.Type, top |-> i, sub |-> 0]>>
         IN own \o LeavesFrom(t, i + 1)
Leaves(t) == LeavesFrom(t, 1)

\* One reserved option in its two spellings, on otherwise identical fields:
\*   Value string `env:"VALUE" default:"d"`   and   `env:"VALUE,default=d"`
\* and likewise required, notempty, ignore, init (on a *string), delim (on a
\* []string) and sep (on a map[string]string).
Semicolon == <<";">>
Equals == <<"=">>
TwinOptions ==
    { [name |-> ValueName, type |-> StringT, opt |-> DefaultTag, tag |-> <<"d">>, val |-> <<"d">>],
      [name |-> ValueName, type |-> StringT, opt |-> RequiredTag, tag |-> True, val |-> <<>>],
      [name |-> ValueName, type |-> StringT, opt |-> NotEmptyTag, tag |-> True, val |-> <<>>],
      [name |-> ValueName, type |-> StringT, opt |-> ignoreTag, tag |-> True, val |-> <<>>],
      [name |-> PtrName, type |-> PtrT(StringT), opt |-> initTag, tag |-> AlwaysLit,
       val |-> AlwaysLit],
      [name |-> SliceName, type |-> SliceT(StringT), opt |-> delimTag, tag |-> Semicolon,
       val |-> Semicolon],
      [name |-> MapName, type |-> MapT(StringT), opt |-> sepTag, tag |-> Equals,
       val |-> Equals] }
StandaloneSpelling(x) ==
    StructT(<<TField(x.name, x.type,
                     Override(EnvTag(ToUpper(x.name), NoOptions), OneTag(x.opt, x.tag)))>>)
OptionSpelling(x) ==
    StructT(<<TField(x.name, x.type, EnvTag(ToUpper(x.name), [o \in {x.opt} |-> x.val]))>>)
TwinTypes ==
    {StandaloneSpelling(x) : x \in TwinOptions} \cup {OptionSpelling(x) : x \in TwinOptions}
\* the same record type with the option in the other spelling
TwinOf(t) ==
    LET x == CHOOSE y \in TwinOptions : t \in {StandaloneSpelling(y), OptionSpelling(y)}
    IN IF t = StandaloneSpelling(x) THEN OptionSpelling(x) ELSE StandaloneSpelling(x)

\* Records with an ignored field:
\*   Value string `ignore:"true"`, `env:"-"`, `env:",ignore"`,
\*                `env:"VALUE,ignore,required"`, `ignore:"true" required:"true"`,
\*                `env:"-" notempty:"true"`
\*   Port int `ignore:"true"`; Value string
\*   Inner struct{ Port int } `env:"-"`
Dash == <<"-">>
IgnoreTypes ==
    {StructT(<<TField(ValueName, StringT, tags)>>) :
        tags \in {OneTag(ignoreTag, True),
                  EnvTag(Dash, NoOptions),
                  EnvTag(<<>>, Flag(ignoreTag)),
                  EnvTag(ToUpper(ValueName), Override(Flag(ignoreTag), Flag(RequiredTag))),
                  Override(OneTag(ignoreTag, True), OneTag(RequiredTag, True)),
                  Override(EnvTag(Dash, NoOptions), OneTag(NotEmptyTag, True))}}
    \cup {StructT(<<TField(Port, IntT, OneTag(ignoreTag, True)),
                    TField(ValueName, StringT, NoTags)>>),
          StructT(<<TField(InnerName, StructT(<<TField(Port, IntT, NoTags)>>),
                           EnvTag(Dash, NoOptions))>>)}

\* struct { Field D } for the decoder-backed types D, plain, with
\* `decodeunset:"true"`, `env:",decodeunset"` or `default:"d"`
FieldName == <<"F", "i", "e", "l", "d">>
DecoderImpls == {"unset", "unmarshaler", "unmarshalError"}
DecoderTypes ==
    {StructT(<<TField(FieldName, DecoderT(impl), tags)>>) :
        impl \in DecoderImpls,
        tags \in {NoTags, OneTag(decodeUnsetTag, True), EnvTag(<<>>, Flag(decodeUnsetTag)),
                  OneTag(DefaultTag, <<"d">>)}}

\* struct { Slice []string `env:"SLICE"` }, struct { Slice []string `default:"d"` }
\* and struct { Slice []struct{ Value string `default:"d"` } }
LoopTypes ==
    { StructT(<<TField(SliceName, SliceT(StringT), EnvTag(ToUpper(SliceName), NoOptions))>>),
      StructT(<<TField(SliceName, SliceT(StringT), OneTag(DefaultTag, <<"d">>))>>),
      StructT(<<TField(SliceName, SliceT(InnerDefault), NoTags)>>) }

\* struct { Value string `init:"never"` }, struct { Value string `env:",init=never"` }
\* and struct { Port int `init:"never"` }
InitLeafTypes ==
    { StructT(<<TField(ValueName, StringT, OneTag(initTag, NeverLit))>>),
      StructT(<<TField(ValueName, StringT, EnvTag(<<>>, [o \in {initTag} |-> NeverLit]))>>),
      StructT(<<TField(Port, IntT, OneTag(initTag, NeverLit))>>) }

\* struct { Ptr *struct{ Value *string } `init:"always"` } and the same
\* with `init:"values"`
InnerPtr == StructT(<<TField(ValueName, PtrT(StringT), NoTags)>>)
NestedInitTypes ==
    {StructT(<<TField(PtrName, PtrT(InnerPtr), OneTag(initTag, m))>>) :
        m \in {AlwaysLit, ValuesLit}}

ConfigTypes ==
    PtrStructTypes \cup PtrLeafTypes \cup SliceTypes \cup MapTypes \cup FallbackTypes
      \cup OrderTypes \cup TwinTypes \cup IgnoreTypes \cup DecoderTypes \cup LoopTypes
      \cup InitLeafTypes \cup NestedInitTypes

IndexKey(i) == ToUpper(SliceName) \o <<"_">> \o Itoa(i)
IndexValueKey(i) == IndexKey(i) \o <<"_">> \o ToUpper(ValueName)

MapEntryKey(k) == MapName \o <<"_">> \o k

WalkKeysFor(t) ==
    IF t \in PtrStructTypes
    THEN {ToUpper(PtrName) \o <<"_">> \o ToUpper(ValueName), ToUpper(PtrName) \o <<"_", "D">>,
          ToUpper(PtrName), ToUpper(ValueName)}
    ELSE IF t \in PtrLeafTypes \cup NestedInitTypes
    THEN {ToUpper(ValueName), ToUpper(PtrName) \o <<"_">> \o ToUpper(ValueName)}
    ELSE IF t \in FallbackTypes
    THEN {ToUpper(FooBar), ToUpper(toSnakeCase(FooBar))}
    ELSE IF t \in OrderTypes \cup InitLeafTypes
    THEN {Leaves(t)[n].key : n \in 1..Len(Leaves(t))}
    ELSE IF t \in DecoderTypes
    THEN {ToUpper(FieldName)}
    ELSE IF t \in LoopTypes
    THEN {ToUpper(SliceName), IF t.fields[1].Type.elem.kind = "struct"
                              THEN IndexValueKey(0) ELSE IndexKey(0)}
    ELSE IF t \in IgnoreTypes
    THEN {Leaves(t)[n].key : n \in 1..Len(Leaves(t))} \cup {Dash}
    ELSE IF t \in TwinTypes
    THEN {ToUpper(t.fields[1].Name)} \cup
         (CASE t.fields[1].Type.kind = "slice" -> {ToUpper(t.fields[1].Name) \o <<"_", "0">>}
            [] t.fields[1].Type.kind = "map"   -> {ToUpper(t.fields[1].Name) \o <<"_", "A">>}
            [] OTHER -> {})
    ELSE IF t \in MapTypes
    THEN IF t.fields[1].Type.elem.kind = "struct"
         THEN {MapName, MapEntryKey(<<"A">>) \o <<"_">> \o ToUpper(ValueName),
               MapEntryKey(<<"B">>) \o <<"_">> \o ToUpper(ValueName),
               MapEntryKey(<<"A">>) \o <<"_", "F", "O", "O">>}
         ELSE {MapName, MapEntryKey(<<"A">>), MapEntryKey(<<"B">>)}
    ELSE IF t.fields[1].Type.elem.kind = "struct"
    THEN {ToUpper(SliceName)} \cup {IndexValueKey(i) : i \in 0..2}
    ELSE {ToUpper(SliceName)} \cup {IndexKey(i) : i \in 0..2}

WalkValues == {<<>>, <<"a">>, <<"7">>, <<"a", ",", "7">>}

WalkEnvsOver(keys, n) ==
    UNION {[S -> WalkValues] : S \in {T \in SUBSET keys : Cardinality(T) <= n}}

MapValues == {<<>>, <<"a">>, <<"a", ":", "7">>, <<"a", ":", "7", ",", "b">>}

TwinValues == {<<>>, <<"a">>, <<"a", ";", "7">>, <<"a", "=", "7">>, <<"a", ":", "7">>}

WalkEnvsFor(t) ==
    IF t \in TwinTypes
    THEN UNION {[S -> TwinValues] : S \in SUBSET WalkKeysFor(t)}
    ELSE IF t \in MapTypes
    THEN UNION {[S -> MapValues] :
                  S \in {T \in SUBSET WalkKeysFor(t) : Cardinality(T) <= MaxWalkEnv}}
    ELSE WalkEnvsOver(WalkKeysFor(t), MaxWalkEnv)

\* the records handed to Walk: zeroed, or with the string, int and map
\* fields already holding something
PresetKey == <<"z">>
PresetElem(e) == IF e.kind = "struct" THEN <<PresetKey>> ELSE PresetKey
RECURSIVE PresetValue(_)
PresetValue(ft) ==
    CASE ft.kind = "string" -> PresetKey
      [] ft.kind = "int"    -> 5
      [] ft.kind = "map"    -> MapOf([k \in {PresetKey} |-> PresetElem(ft.elem)])
      [] ft.kind = "struct" -> [i \in 1..Len(ft.fields) |-> PresetValue(ft.fields[i].Type)]
      [] OTHER -> Zero(ft)
InitialRecords(t) ==
    {Zero(t), [i \in 1..Len(t.fields) |-> PresetValue(t.fields[i].Type)]}

\* walker.New, the init options and matcher.Build, then the zero record
\* whose address is handed to Walk
InitWalk ==
    /\ cfgType \in ConfigTypes
    /\ initMode \in InitModes
    /\ cfg \in InitialRecords(cfgType)
    /\ EnvVars \in WalkEnvsFor(cfgType)
    /\ Required = FALSE
    /\ NotEmpty = FALSE
    /\ Expand = FALSE
    /\ DisableFallback = FALSE
    /\ path = <<>>
    /\ res = NoResult
    /\ pc = "idle"
    /\ walkErr = NoErr
    /\ wpc = "ready"
    /\ decodeUnset \in (IF cfgType \in DecoderTypes THEN BOOLEAN ELSE {FALSE})
    /\ cfg2 = cfg
    /\ walkErr2 = NoErr
    /\ mapKeys = {}
    /\ prefixFound = FALSE
    /\ LoaderIdle

\* one call of walker.Walk(&cfg)
Walk ==
    /\ wpc = "ready"
    /\ \E o \in walkStruct(cfg, cfgType, <<>>) :
        /\ cfg' = o.rv
        /\ walkErr' = o.err
    /\ wpc' = "done"
    /\ UNCHANGED <<EnvVars, Required, NotEmpty, Expand, DisableFallback, path, res, pc,
                   cfgType, initMode, decodeUnset, cfg2, walkErr2, mapKeys, prefixFound,
                   loaderVars>>

\* a second call of walker.Walk, on a second record equal to what the first
\* call was handed, with the same walker
WalkAgain ==
    /\ wpc = "done"
    /\ \E o \in walkStruct(cfg2, cfgType, <<>>) :
        /\ cfg2' = o.rv
        /\ walkErr2' = o.err
    /\ wpc' = "again"
    /\ UNCHANGED <<EnvVars, Required, NotEmpty, Expand, DisableFallback, path, res, pc,
                   cfgType, initMode, decodeUnset, cfg, walkErr, mapKeys, prefixFound,
                   loaderVars>>

NextWalk == Walk \/ WalkAgain

SpecWalk == InitWalk /\ [][NextWalk]_vars

----------------------------------------------------------------------------
(* Matcher.GetMapKeys: the dynamic keys of a map field                     *)

\* The prefixes toPrefix can return for a key; empty when it reports no match.
RECURSIVE toPrefix(_, _, _)
toPrefix(key, prefix, p) ==
    IF Len(p) = 0
    THEN IF HasPrefixStr(key, ToUpper(prefix)) THEN {ToUpper(prefix)} ELSE {}
    ELSE LET current == p[1]
             rest == Tail(p)
             primary == IF TagName \in DOMAIN current.Tags
                        THEN toPrefix(key, NextPrefix(prefix, current.Tags[TagName].Value), rest)
                        ELSE {}
             fallback == {n \in DOMAIN current.Tags :
                            ~(current.Tags[n].Value = <<>> \/ isKnownTag(n))}
         IN IF primary # {} THEN primary
            ELSE UNION {toPrefix(key, NextPrefix(prefix, current.Tags[n].Value), rest) :
                          n \in fallback}

\* Matcher.hasPrefix: the first candidate prefix that starts some loaded key
\* decides, and the result is the same whichever it is
RECURSIVE hasPrefix(_, _)
hasPrefix(prefix, p) ==
    IF Len(p) = 0
    THEN \E env \in DOMAIN EnvVars : HasPrefixStr(env, ToUpper(prefix))
    ELSE LET current == p[1]
             rest == Tail(p)
             fallback == {n \in DOMAIN current.Tags :
                            ~(current.Tags[n].Value = <<>> \/ isKnownTag(n))}
         IN \/ /\ TagName \in DOMAIN current.Tags
               /\ hasPrefix(NextPrefix(prefix, current.Tags[TagName].Value), rest)
            \/ \E n \in fallback :
                  hasPrefix(NextPrefix(prefix, current.Tags[n].Value), rest)

HasPrefix(p) == hasPrefix(<<>>, p)

parseMapKey(key, prefix, suffix) ==
    IF ~HasPrefixStr(key, prefix) THEN <<>>
    ELSE LET afterPrefix == TrimPrefixStr(key, prefix \o <<"_">>)
             idx == IndexStr(afterPrefix, <<"_">> \o suffix \o <<"_">>)
         IN IF HasSuffixStr(afterPrefix, suffix)
            THEN ToLower(TrimSuffixStr(afterPrefix, <<"_">> \o suffix))
            ELSE IF idx >= 0 THEN ToLower(SubSeq(afterPrefix, 1, idx))
            ELSE <<>>

\* one candidate name of findLongestMatchingKey against the best so far
betterKey(best, key, prefix, value) ==
    LET mapKey == parseMapKey(key, prefix, ToUpper(value))
    IN IF mapKey # <<>> /\ Len(value) > best.longestMatch
       THEN [bestKey |-> mapKey, longestMatch |-> Len(value)]
       ELSE best

\* the range over the tags of one element field, in any order
RECURSIVE scanFallbackTags(_, _, _, _, _)
scanFallbackTags(best, names, tags, key, prefix) ==
    IF names = {} THEN {best}
    ELSE UNION {scanFallbackTags(
                    IF tags[n].Value = <<>> \/ isKnownTag(n) \/ DisableFallback THEN best
                    ELSE betterKey(best, key, prefix, tags[n].Value),
                    names \ {n}, tags, key, prefix) : n \in names}

\* the loop of findLongestMatchingKey over the element fields from i on
RECURSIVE scanElemFields(_, _, _, _, _)
scanElemFields(best, fields, i, key, prefix) ==
    IF i > Len(fields) THEN {best.bestKey}
    ELSE LET tags == ParseTags(fields[i]).Tags
             afterEnv == IF TagName \in DOMAIN tags
                         THEN betterKey(best, key, prefix, tags[TagName].Value)
                         ELSE best
         IN UNION {scanElemFields(b, fields, i + 1, key, prefix) :
                     b \in scanFallbackTags(afterEnv, DOMAIN tags, tags, key, prefix)}

findLongestMatchingKey(key, prefix, p) ==
    scanElemFields([bestKey |-> <<>>, longestMatch |-> 0],
                   p[Len(p)].Type.elem.fields, 1, key, prefix)

\* the map keys one loaded key can contribute; <<>> stands for none
mapKeysOf(key, p) ==
    LET prefixes == toPrefix(key, <<>>, p)
    IN IF prefixes = {} THEN {<<>>}
       ELSE IF p[Len(p)].Type.elem.kind = "struct"
       THEN UNION {findLongestMatchingKey(key, prefix, p) : prefix \in prefixes}
       ELSE {parseMapKey(key, prefix, <<>>) : prefix \in prefixes}

\* what one loaded key contributes to getSliceMapKeys at index i
sliceMapKeysAt(key, p, i) ==
    LET prefixes == toPrefix(key, <<>>, p)
    IN IF prefixes = {} THEN {<<>>}
       ELSE {parseMapKey(key, prefix, Itoa(i)) : prefix \in prefixes}

\* the loop of getSliceMapKeys from index i on, with uniqueKeys so far
RECURSIVE getSliceMapKeysFrom(_, _, _)
getSliceMapKeysFrom(i, p, uniqueKeys) ==
    LET loaded == DOMAIN EnvVars
        all == UNION {sliceMapKeysAt(k, p, i) : k \in loaded}
        picks == {g \in [loaded -> all] : \A k \in loaded : g[k] \in sliceMapKeysAt(k, p, i)}
    IN UNION {LET found == {g[k] : k \in loaded} \ {<<>>}
              IN IF found = {} THEN {uniqueKeys}
                 ELSE getSliceMapKeysFrom(i + 1, p, uniqueKeys \cup found) : g \in picks}

\* The sets of keys getStructMapKeys, getSliceMapKeys and getPrimitiveMapKeys
\* can return (the order of the returned slice is that of a map range and is
\* left out).
GetMapKeys(p) ==
    IF Len(p) = 0 THEN {{}}
    ELSE IF p[Len(p)].Type.elem.kind = "slice" THEN getSliceMapKeysFrom(0, p, {})
    ELSE LET loaded == DOMAIN EnvVars
             all == UNION {mapKeysOf(k, p) : k \in loaded}
         IN {{f[k] : k \in loaded} \ {<<>>} :
               f \in {g \in [loaded -> all] : \A k \in loaded : g[k] \in mapKeysOf(k, p)}}

KeyName == <<"K", "e", "y">>
OtherKeyName == <<"O", "t", "h", "e", "r", "K", "e", "y">>

\* struct { Key string; OtherKey string }
KeyElem == StructT(<<TField(KeyName, StringT, NoTags), TField(OtherKeyName, StringT, NoTags)>>)

MapFields ==
    {TField(MapName, MapT(e), tags) :
        e \in {KeyElem, StringT, SliceT(StringT)},
        tags \in {NoTags, EnvTag(MapName, NoOptions)}}

MapEnvKeys ==
    { <<"M","_","A","_","K","E","Y">>,
      <<"M","_","B","_","O","T","H","E","R","_","K","E","Y">>,
      <<"M","_","B","_","K","E","Y">>,
      <<"M","_","A","_","O","T","H","E","R","K","E","Y">>,
      <<"M","_","A">>,
      <<"M","_","K","E","Y">>,
      <<"M","A","_","K","E","Y">>,
      <<"M","_","A","_","K","E","Y","_","X">>,
      <<"X","_","A","_","K","E","Y">>,
      <<"M","_","A","_","M","O","N","K","E","Y">>,
      <<"M","_","A","_","0">>,
      <<"M","_","A","_","1","0">> }

InitKeys ==
    /\ path \in {<<ParseTags(f)>> : f \in MapFields}
    /\ EnvVars \in EnvsOver(MapEnvKeys, MaxEnv)
    /\ Required = FALSE
    /\ NotEmpty = FALSE
    /\ Expand = FALSE
    /\ DisableFallback \in BOOLEAN
    /\ res = NoResult
    /\ pc = "enumerate"
    /\ cfgType = "none"
    /\ initMode = "none"
    /\ cfg = <<>>
    /\ walkErr = NoErr
    /\ wpc = "idle"
    /\ decodeUnset = FALSE
    /\ cfg2 = <<>>
    /\ walkErr2 = NoErr
    /\ mapKeys = {}
    /\ prefixFound = FALSE
    /\ LoaderIdle

\* one call of Matcher.GetMapKeys(path)
EnumerateMapKeys ==
    /\ pc = "enumerate"
    /\ mapKeys' \in GetMapKeys(path)
    /\ pc' = "enumerated"
    /\ UNCHANGED <<EnvVars, Required, NotEmpty, Expand, DisableFallback, path, res,
                   cfgType, initMode, cfg, walkErr, wpc, decodeUnset, cfg2, walkErr2,
                   prefixFound, loaderVars>>

\* one call of Matcher.HasPrefix(path)
CheckPrefix ==
    /\ pc = "enumerate"
    /\ prefixFound' = HasPrefix(path)
    /\ pc' = "checked"
    /\ UNCHANGED <<EnvVars, Required, NotEmpty, Expand, DisableFallback, path, res,
                   cfgType, initMode, cfg, walkErr, wpc, decodeUnset, cfg2, walkErr2,
                   mapKeys, loaderVars>>

NextKeys == EnumerateMapKeys \/ CheckPrefix

SpecKeys == InitKeys /\ [][NextKeys]_vars

----------------------------------------------------------------------------
(* internal/loader: env.Load                                               *)

\* at most this many sources are registered
MaxSources == 2

\* a filter or a transform is [kind, arg]: WithHasPrefix, WithHasSuffix,
\* WithTrimPrefix, WithTrimSuffix
ApplyFilter(f, key) ==
    IF f.kind = "hasprefix" THEN HasPrefixStr(key, f.arg) ELSE HasSuffixStr(key, f.arg)
ApplyTransform(t, key) ==
    IF t.kind = "trimprefix" THEN TrimPrefixStr(key, t.arg) ELSE TrimSuffixStr(key, t.arg)

matches(key) ==
    \/ Len(filters) = 0
    \/ \E i \in 1..Len(filters) : ApplyFilter(filters[i], key)

RECURSIVE transformFrom(_, _)
transformFrom(key, i) ==
    IF i > Len(transforms) THEN key
    ELSE transformFrom(ApplyTransform(transforms[i], key), i + 1)
transform(key) == transformFrom(key, 1)

\* mutant: a key that is already in the mapping keeps its value
RECURSIVE loadSource_keepFirst(_, _, _)
loadSource_keepFirst(into, src, keys) ==
    IF keys = {} THEN {into}
    ELSE UNION {loadSource_keepFirst(
                    IF matches(k) /\ transform(k) \notin DOMAIN into
                    THEN Override(into, [x \in {transform(k)} |-> src[k]])
                    ELSE into,
                    src, keys \ {k}) : k \in keys}

\* the range over what one source loaded, over the keys not yet visited, in
\* any order: the mappings it can leave behind
RECURSIVE loadSource(_, _, _)
loadSource(into, src, keys) ==
    IF keys = {} THEN {into}
    ELSE UNION {loadSource(
                    IF matches(k)
                    THEN Override(into, [x \in {transform(k)} |-> src[k]])
                    ELSE into,
                    src, keys \ {k}) : k \in keys}

\* Inputs of the loader specification
RawKeys == {<<"X">>, <<"A", "_", "X">>}
SourceValues == {<<"1">>, <<"2">>}
DefaultKeys == {<<"X">>, <<"Y">>}
DefaultValue == <<"d">>
SourceMaps == UNION {[S -> SourceValues] : S \in SUBSET RawKeys}
SourceLists == UNION {[1..n -> SourceMaps] : n \in 1..MaxSources}
DefaultMaps == UNION {[S -> {DefaultValue}] : S \in SUBSET DefaultKeys}
APrefix == <<"A", "_">>
\* no option, WithHasPrefix("A_"), WithTrimPrefix("A_"), WithPrefix("A_"),
\* WithHasPrefix("A_") with WithHasSuffix("X")
LoaderOptions ==
    { [f |-> <<>>, t |-> <<>>],
      [f |-> <<[kind |-> "hasprefix", arg |-> APrefix]>>, t |-> <<>>],
      [f |-> <<>>, t |-> <<[kind |-> "trimprefix", arg |-> APrefix]>>],
      [f |-> <<[kind |-> "hasprefix", arg |-> APrefix]>>,
       t |-> <<[kind |-> "trimprefix", arg |-> APrefix]>>],
      [f |-> <<[kind |-> "hasprefix", arg |-> APrefix], [kind |-> "hassuffix", arg |-> <<"X">>]>>,
       t |-> <<>>] }

\* loader.New and Build with the options, before Load
InitLoad ==
    /\ sources \in SourceLists
    /\ defaults \in DefaultMaps
    /\ \E o \in LoaderOptions :
        /\ filters = o.f
        /\ transforms = o.t
    /\ envs = <<>>
    /\ si = 1
    /\ lpc = "defaults"
    /\ EnvVars = <<>>
    /\ Required = FALSE
    /\ NotEmpty = FALSE
    /\ Expand = FALSE
    /\ DisableFallback = FALSE
    /\ path = <<>>
    /\ res = NoResult
    /\ pc = "idle"
    /\ cfgType = "none"
    /\ initMode = "none"
    /\ cfg = <<>>
    /\ walkErr = NoErr
    /\ wpc = "idle"
    /\ decodeUnset = FALSE
    /\ cfg2 = <<>>
    /\ walkErr2 = NoErr
    /\ mapKeys = {}
    /\ prefixFound = FALSE

matcherWalkerVars ==
    <<EnvVars, Required, NotEmpty, Expand, DisableFallback, path, res, pc,
      cfgType, initMode, cfg, walkErr, wpc, decodeUnset, cfg2, walkErr2, mapKeys,
      prefixFound>>

\* env.Load: the defaults are copied first
LoadDefaults ==
    /\ lpc = "defaults"
    /\ envs' = defaults
    /\ lpc' = "sources"
    /\ UNCHANGED <<sources, defaults, filters, transforms, si, matcherWalkerVars>>

\* env.Load: the next source is loaded, filtered, transformed and merged
LoadSource ==
    /\ lpc = "sources"
    /\ si <= Len(sources)
    /\ envs' \in loadSource(envs, sources[si], DOMAIN sources[si])
    /\ si' = si + 1
    /\ UNCHANGED <<sources, defaults, filters, transforms, lpc, matcherWalkerVars>>

\* env.Load returns the mapping
LoadReturn ==
    /\ lpc = "sources"
    /\ si > Len(sources)
    /\ lpc' = "loaded"
    /\ UNCHANGED <<sources, defaults, filters, transforms, envs, si, matcherWalkerVars>>

NextLoad == LoadDefaults \/ LoadSource \/ LoadReturn

SpecLoad == InitLoad /\ [][NextLoad]_vars

\* Properties of env.Load
Yields(i, k) == {raw \in DOMAIN sources[i] : matches(raw) /\ transform(raw) = k}
Yielders(k) == {i \in 1..Len(sources) : Yields(i, k) # {}}
LastYielder(k) == CHOOSE i \in Yielders(k) : \A j \in Yielders(k) : j <= i
YieldedKeys == UNION {{transform(raw) : raw \in {r \in DOMAIN sources[i] : matches(r)}} :
                        i \in 1..Len(sources)}

\* C22: in the mapping Load returns every key holds the value of the last
\* source, in registration order, that yields the key after filtering and
\* transformation; a default appears only for a key no source yields.
C22_LastSourceWins ==
    lpc = "loaded" =>
        /\ DOMAIN envs = YieldedKeys \cup DOMAIN defaults
        /\ \A k \in DOMAIN envs :
              IF Yielders(k) # {}
              THEN envs[k] \in {sources[LastYielder(k)][raw] : raw \in Yields(LastYielder(k), k)}
              ELSE envs[k] = defaults[k]

C22_Witness ==
    /\ lpc = "loaded"
    /\ Len(sources) = 2
    /\ transforms # <<>>
    /\ filters = <<>>
    /\ DOMAIN sources[1] = {<<"X">>} /\ sources[1][<<"X">>] = <<"1">>
    /\ DOMAIN sources[2] = {<<"A", "_", "X">>} /\ sources[2][<<"A", "_", "X">>] = <<"2">>
    /\ DOMAIN defaults = DefaultKeys
    /\ envs = [k \in DefaultKeys |-> IF k = <<"X">> THEN <<"2">> ELSE DefaultValue]

----------------------------------------------------------------------------
(* Properties of Matcher.GetValue                                          *)

Leaf == path[Len(path)]

HasOpt(tm, o) ==
    \/ o \in DOMAIN tm.Tags
    \/ (TagName \in DOMAIN tm.Tags /\ o \in DOMAIN tm.Tags[TagName].Options)

OptValue(tm, o) ==
    IF TagName \in DOMAIN tm.Tags /\ o \in DOMAIN tm.Tags[TagName].Options
    THEN tm.Tags[TagName].Options[o]
    ELSE tm.Tags[o].Value

IsRequired == Required \/ HasOpt(Leaf, RequiredTag)
IsNotEmpty == NotEmpty \/ HasOpt(Leaf, NotEmptyTag)
IsExpand == Expand \/ HasOpt(Leaf, ExpandTag)
IsFile == HasOpt(Leaf, FileTag)
HasDefault == HasOpt(Leaf, DefaultTag)

\* the option tags of the matcher and of the walker
ReservedTags ==
    {"default", "required", "notempty", "expand", "file",
     "delim", "sep", "init", "ignore", "decodeunset"}

\* the names a level can contribute to a key
PrimaryNames(tm) ==
    IF TagName \in DOMAIN tm.Tags THEN {tm.Tags[TagName].Value} \ {<<>>} ELSE {}
FallbackNames(tm) ==
    IF DisableFallback THEN {}
    ELSE {tm.Tags[n].Value : n \in (DOMAIN tm.Tags) \ (ReservedTags \cup {TagName})} \ {<<>>}
EligibleNames(tm) == PrimaryNames(tm) \cup FallbackNames(tm)

RECURSIVE KeysOf(_)
KeysOf(nameSets) ==
    IF Len(nameSets) = 1 THEN {ToUpper(v) : v \in nameSets[1]}
    ELSE {ToUpper(v) \o <<"_">> \o r : v \in nameSets[1], r \in KeysOf(Tail(nameSets))}

Ancestors == SubSeq(path, 1, Len(path) - 1)
AncestorNames == [i \in 1..Len(path) - 1 |-> EligibleNames(path[i])]

CandidateKeys == KeysOf(Append(AncestorNames, EligibleNames(Leaf)))
LeafPrimaryKeys == KeysOf(Append(AncestorNames, PrimaryNames(Leaf)))
LeafFallbackKeys == KeysOf(Append(AncestorNames, FallbackNames(Leaf)))

Loaded(keys) == keys \cap DOMAIN EnvVars

PlainLeaf ==
    /\ ~IsRequired /\ ~IsNotEmpty /\ ~IsExpand /\ ~IsFile /\ ~HasDefault

\* the keys of an untagged top-level field, written out
UntaggedKeys(name) ==
    IF name = FooBar THEN {<<"F","O","O","B","A","R">>, <<"F","O","O","_","B","A","R">>}
    ELSE IF name = APIKey THEN {<<"A","P","I","K","E","Y">>, <<"A","P","I","_","K","E","Y">>}
    ELSE {<<"P","O","R","T">>}

Untagged == DOMAIN Leaf.Tags = {"struct", "struct_snake"}

C2_NestedCandidateFound ==
    (pc = "done" /\ Loaded(CandidateKeys) # {})
        => /\ res.found
           /\ PlainLeaf => res.value \in {EnvVars[k] : k \in Loaded(CandidateKeys)}

C2_Witness ==
    /\ pc = "done" /\ Len(path) = 2 /\ PlainLeaf
    /\ "json" \in DOMAIN path[1].Tags /\ "json" \in DOMAIN Leaf.Tags
    /\ DOMAIN EnvVars = {<<"A","P","P","_","F","B">>}
    /\ res.found /\ res.value = FilePath

\* C3: with a key of the field's env annotation and a key of one of its
\* fallback candidates both loaded, GetValue returns the value of an
\* env-annotation key.
C3_PrimaryWins ==
    (pc = "done" /\ PlainLeaf
        /\ Loaded(LeafPrimaryKeys) # {} /\ Loaded(LeafFallbackKeys) # {})
        => res.value \in {EnvVars[k] : k \in Loaded(LeafPrimaryKeys)}

DottedPath ==
    IF Len(path) = 1 THEN Leaf.FieldName
    ELSE path[1].FieldName \o <<".">> \o Leaf.FieldName

\* C4: a required field none of whose candidate keys is loaded makes
\* GetValue return the required error naming the dotted field path, also
\* when the field has a default.
C4_RequiredAbsentErrors ==
    (pc = "done" /\ IsRequired /\ Loaded(CandidateKeys) = {})
        => res = Result(<<>>, FALSE, Err("required", DottedPath))

C4_Witness ==
    /\ pc = "done" /\ Len(path) = 2 /\ HasOpt(Leaf, RequiredTag) /\ HasDefault
    /\ Loaded(CandidateKeys) = {} /\ EnvVars # <<>>
    /\ res.err.kind = "required"

\* C5: a default used for an absent key still passes the notempty check and
\* the file step: an empty default on a notempty field is an error, and on a
\* file field the default names the file whose contents become the value.
C5_DefaultCheckedAndRead ==
    (pc = "done" /\ ~IsRequired /\ HasDefault /\ ~IsExpand
        /\ Loaded(CandidateKeys) = {})
        => /\ (IsNotEmpty /\ OptValue(Leaf, DefaultTag) = <<>>)
                => res.err.kind = "notempty"
           /\ (IsFile /\ FileExists(OptValue(Leaf, DefaultTag)))
                => res.value = ReadFile(OptValue(Leaf, DefaultTag))

\* C6: a notempty field whose matched key holds the empty string makes
\* GetValue return the notempty error naming that key; with no key of the
\* field loaded and the field not required there is no error.
C6_NotEmptyNamesKey ==
    (pc = "done" /\ IsNotEmpty)
        => /\ (Loaded(CandidateKeys) # {}
                 /\ \A k \in Loaded(CandidateKeys) : EnvVars[k] = <<>>)
                => /\ res.err.kind = "notempty"
                   /\ res.err.arg \in Loaded(CandidateKeys)
           /\ res.err.kind = "notempty"
                => /\ res.err.arg \in Loaded(CandidateKeys)
                   /\ EnvVars[res.err.arg] = <<>>
           /\ (Loaded(CandidateKeys) = {} /\ ~IsRequired) => res.err = NoErr

C6_Witness ==
    /\ pc = "done" /\ HasOpt(Leaf, NotEmptyTag) /\ Len(path) = 2
    /\ res.err = Err("notempty", <<"A","P","P","_","F","O","O","_","B","A","R">>)

\* every level of the path carries the env annotation
AllPrimary == \A i \in 1..Len(path) : TagName \in DOMAIN path[i].Tags
\* the keys made of the env values of every level
PrimaryOnlyKeys == KeysOf([i \in 1..Len(path) |-> PrimaryNames(path[i])])
DefaultValues == {OptValue(Leaf, DefaultTag), OsExpand(OptValue(Leaf, DefaultTag), EnvVars, 1)}

\* C14: with DisableFallback set, a value comes from a loaded key only when
\* every path level carries the env annotation and the key made of the env
\* values is loaded; otherwise the field is not found (or gets its default),
\* whatever is loaded.
C14_PrimaryOnly ==
    (pc = "done" /\ DisableFallback) =>
        /\ (~AllPrimary \/ Loaded(PrimaryOnlyKeys) = {}) =>
              \/ ~res.found
              \/ (HasDefault /\ res.err = NoErr /\ res.value \in DefaultValues)
        /\ (AllPrimary /\ Loaded(PrimaryOnlyKeys) # {} /\ PlainLeaf) =>
              /\ res.found
              /\ res.value \in {EnvVars[k] : k \in Loaded(PrimaryOnlyKeys)}

C14_Witness ==
    /\ pc = "done" /\ DisableFallback
    /\ Len(path) = 2
    /\ TagName \notin DOMAIN path[1].Tags
    /\ TagName \in DOMAIN Leaf.Tags
    /\ DOMAIN EnvVars = {<<"A","P","P","_","C","U","S","T","O","M">>, <<"A","_","C","U","S","T","O","M">>}
    /\ ~res.found

\* the contents of the one file, "x${O}", with the reference replaced
ExpandedContents == <<"x">> \o (IF <<"O">> \in DOMAIN EnvVars THEN EnvVars[<<"O">>] ELSE <<>>)

\* C18: a field with file and expand whose key is loaded resolves to the
\* contents of the file named by the key's value, with ${O} in the contents
\* replaced by the loaded value of O or by nothing when O is not loaded; the
\* path itself is taken as it is loaded and is not expanded.
C18_FileThenExpand ==
    (pc = "done" /\ IsFile /\ IsExpand /\ Loaded(CandidateKeys) # {}) =>
        \E k \in Loaded(CandidateKeys) :
            IF IsNotEmpty /\ EnvVars[k] = <<>>
            THEN res.err.kind = "notempty"
            ELSE IF EnvVars[k] = FilePath
            THEN res = Result(ExpandedContents, TRUE, NoErr)
            ELSE res = Result(<<>>, TRUE, Err("file", EnvVars[k]))

C18_Witness ==
    /\ pc = "done" /\ IsFile /\ HasOpt(Leaf, ExpandTag)
    /\ Loaded(CandidateKeys) # {}
    /\ \A k \in Loaded(CandidateKeys) : EnvVars[k] = FilePath
    /\ <<"O">> \in DOMAIN EnvVars /\ EnvVars[<<"O">>] = FilePath
    /\ res = Result(<<"x">> \o FilePath, TRUE, NoErr)

\* the loaded path is a reference to a key that holds the path of the file
C18_PathNotExpanded ==
    /\ pc = "done" /\ IsFile /\ HasOpt(Leaf, ExpandTag)
    /\ Loaded(CandidateKeys) # {}
    /\ \A k \in Loaded(CandidateKeys) : EnvVars[k] = <<"$", "{", "O", "}">>
    /\ <<"O">> \in DOMAIN EnvVars /\ EnvVars[<<"O">>] = FilePath
    /\ res = Result(<<>>, TRUE, Err("file", <<"$", "{", "O", "}">>))

\* the loaded keys that are a candidate key of the field up to letter case
LoadedIgnoringCase(keys) == {k \in DOMAIN EnvVars : ToUpper(k) \in keys}

\* C21: key matching ignores letter case: a field one of whose candidate keys
\* is loaded in some other letter case is found, with the value of such a
\* key.
C21_CaseInsensitive ==
    (pc = "done" /\ PlainLeaf /\ LoadedIgnoringCase(CandidateKeys) # {})
        => /\ res.found
           /\ res.value \in {EnvVars[k] : k \in LoadedIgnoringCase(CandidateKeys)}

----------------------------------------------------------------------------
(* Properties of walker.Walk                                               *)

Walked == wpc = "done"
TheField == cfgType.fields[1]
FieldMode == parseInitMode(ParseTags(TheField).Tags)
KeysUnder(p) == {k \in DOMAIN EnvVars : HasPrefixStr(k, p)}

\* C7: a nil struct pointer whose sub-fields receive only default values
\* (no loaded key lies under the field) is still nil after a walk in init
\* mode values.
C7_DefaultOnlyStaysNil ==
    (/\ Walked
     /\ TheField.Type = PtrT(InnerDefault)
     /\ FieldMode = "values"
     /\ KeysUnder(ToUpper(PtrName)) = {})
        => cfg[1].nil

\* C8: for a nil pointer field the init modes never and always decide alone:
\* under never the field is nil after the walk whatever is loaded, under
\* always it is non-nil after every walk that returns, whatever is loaded.
C8_NeverNilAlwaysSet ==
    (Walked /\ TheField.Type.kind = "ptr") =>
        /\ FieldMode = "never" => cfg[1].nil
        /\ (FieldMode = "always" /\ walkErr = NoErr) => ~cfg[1].nil

C8_Witness ==
    /\ Walked
    /\ TheField.Type.kind = "ptr"
    /\ FieldMode = "always"
    /\ DOMAIN EnvVars = {}
    /\ walkErr = NoErr
    /\ ~cfg[1].nil

IsSliceField == TheField.Type.kind = "slice"
ElemKind == TheField.Type.elem.kind
OwnKey == ToUpper(SliceName)
IndexLoaded(i) == KeysUnder(IndexKey(i)) # {}
\* the smallest index with no loaded key
GapIndex == CHOOSE n \in 0..3 : ~IndexLoaded(n) /\ \A i \in 0..(n - 1) : IndexLoaded(i)

ElementAt(i) ==
    IF ElemKind = "struct" THEN <<EnvVars[IndexValueKey(i)]>> ELSE EnvVars[IndexKey(i)]

\* C9: a slice field without a delimited value holds exactly the elements of
\* the indices below the first index with no loaded key, in order.
C9_IndexedUpToGap ==
    (/\ Walked
     /\ walkErr = NoErr
     /\ IsSliceField
     /\ ElemKind \in {"string", "struct"}
     /\ OwnKey \notin DOMAIN EnvVars)
        => /\ Len(cfg[1].elems) = GapIndex
           /\ \A i \in 0..(GapIndex - 1) : cfg[1].elems[i + 1] = ElementAt(i)

\* C10: a slice field whose own key is loaded holds the parts of that value
\* split at ",", in order, and the indexed keys are not consulted.
C10_OwnKeyDelimited ==
    (/\ Walked
     /\ walkErr = NoErr
     /\ IsSliceField
     /\ ElemKind = "string"
     /\ OwnKey \in DOMAIN EnvVars)
        => cfg[1].elems = Split(EnvVars[OwnKey], ",")

----------------------------------------------------------------------------
(* Properties of Matcher.GetMapKeys                                        *)

Enumerated == pc = "enumerated"
UnderMap(k) == HasPrefixStr(k, ToUpper(MapName) \o <<"_">>)
ElemNames == {ToUpper(KeyName), ToUpper(OtherKeyName), ToUpper(toSnakeCase(OtherKeyName))}
\* the element-field names that end the key, after a separator
SuffixNames(k) == {n \in ElemNames : HasSuffixStr(k, <<"_">> \o n)}
LongestSuffixName(k) ==
    CHOOSE n \in SuffixNames(k) : \A o \in SuffixNames(k) : Len(o) <= Len(n)
\* the text between the map's prefix and the name
Between(k, n) == SubSeq(k, Len(MapName) + 2, Len(k) - Len(n) - 1)
ExpectedMapKeys ==
    {ToLower(Between(k, LongestSuffixName(k))) :
        k \in {l \in DOMAIN EnvVars : UnderMap(l) /\ SuffixNames(l) # {}}} \ {<<>>}

\* C11: for a map of structs GetMapKeys returns, for each loaded key under the
\* map's prefix, the text between the prefix and the longest element-field
\* name that ends the key, and nothing else.
C11_LongestSuffixKeys ==
    (/\ Enumerated
     /\ ~DisableFallback
     /\ path[1].Type.elem.kind = "struct")
        => mapKeys = ExpectedMapKeys

\* the names of a level that are not the value of an option tag
NamingNames(tm) ==
    {tm.Tags[n].Value : n \in (DOMAIN tm.Tags) \ ReservedTags} \ {<<>>}

NamingKeys == KeysOf([i \in 1..Len(path) |-> NamingNames(path[i])])

\* C27: a value found for a field without a default comes from a loaded key
\* built from names that are not the value of an option tag (default,
\* required, notempty, expand, file, delim, sep, init, ignore, decodeunset).
C27_OptionValuesNotKeys ==
    (pc = "done" /\ res.found /\ ~HasDefault) => Loaded(NamingKeys) # {}

\* some level of the path has an env tag that holds options and no name
OptionsOnlyEnv ==
    \E i \in 1..Len(path) :
        TagName \in DOMAIN path[i].Tags /\ path[i].Tags[TagName].Value = <<>>

\* C29: a path with a level whose env tag has an empty name resolves from
\* the keys it would have without that env tag and from no other: a value is
\* found for a field without a default exactly when such a key is loaded.
C29_OptionsOnlyEnvAddsNoKey ==
    (pc = "done" /\ OptionsOnlyEnv /\ ~HasDefault)
        => (res.found <=> Loaded(CandidateKeys) # {})

\* some loaded key starts with a prefix made of the env values of every level
PrimaryPrefixLoaded ==
    /\ AllPrimary
    /\ \E k \in DOMAIN EnvVars : \E q \in PrimaryOnlyKeys : HasPrefixStr(k, q)

\* C26: with DisableFallback set, HasPrefix succeeds, and GetMapKeys finds
\* keys, only if some loaded key starts with a prefix built from the env
\* annotation values of every path level.
C26_PrefixPrimaryOnly ==
    DisableFallback =>
        /\ (pc = "checked" /\ prefixFound) => PrimaryPrefixLoaded
        /\ (pc = "enumerated" /\ mapKeys # {}) => PrimaryPrefixLoaded

----------------------------------------------------------------------------
(* Properties of walker.Walk on map fields                                 *)

IsMapField == TheField.Type.kind = "map"
MapElem == TheField.Type.elem
\* the record as it was handed to Walk
Before == cfg2
\* an element that holds nothing but the values of its default tags
DefaultOnly(v) == MapElem = InnerDefault /\ v = <<<<"d">>>>

\* C12: a map key found by enumeration whose element resolves to nothing but
\* zero, empty or default values is not inserted into the map.
C12_NoEmptyEntries ==
    (/\ Walked
     /\ walkErr = NoErr
     /\ IsMapField
     /\ Before = Zero(cfgType)
     /\ MapName \notin DOMAIN EnvVars)
        => \A k \in DOMAIN cfg[1].entries :
              /\ ~isZero(MapElem, cfg[1].entries[k])
              /\ ~DefaultOnly(cfg[1].entries[k])

MalformedPair(part) == IndexStr(part, defaultSep) < 0
HasMalformedPair(value) ==
    \E i \in 1..Len(Split(value, ",")) : MalformedPair(Split(value, ",")[i])

\* C13: a delimited map value with a pair that lacks the separator makes the
\* walk return the invalid-format error and leaves the map field as it was.
C13_MalformedPairErrors ==
    (/\ Walked
     /\ cfgType \in MapTypes
     /\ MapElem = StringT
     /\ MapName \in DOMAIN EnvVars
     /\ EnvVars[MapName] # <<>>
     /\ HasMalformedPair(EnvVars[MapName]))
        => /\ walkErr.kind = "invalid map format"
           /\ cfg = Before

C13_Witness ==
    /\ Walked
    /\ cfgType \in MapTypes
    /\ MapElem = StringT
    /\ MapName \in DOMAIN EnvVars
    /\ EnvVars[MapName] = <<"a", ":", "7", ",", "b">>
    /\ walkErr = Err("invalid map format", <<"b">>)
    /\ ~cfg[1].isnil
    /\ cfg = Before

\* C15: two walks over equal records with the same loaded mapping and the
\* same options end with equal records and the same error.
C15_Deterministic ==
    wpc = "again" => (cfg = cfg2 /\ walkErr = walkErr2)

----------------------------------------------------------------------------
(* Properties of walker.Walk on records of several fields                  *)

\* leaf n cannot be parsed: an int whose key holds a non-number
Fails(n) ==
    LET leaf == Leaves(cfgType)[n]
    IN /\ leaf.type = IntT
       /\ leaf.key \in DOMAIN EnvVars
       /\ EnvVars[leaf.key] \in {<<"a">>, <<"a", ",", "7">>}
FailingLeaves == {n \in 1..Len(Leaves(cfgType)) : Fails(n)}
FirstFailing ==
    Leaves(cfgType)[CHOOSE n \in FailingLeaves : \A m \in FailingLeaves : n <= m]

\* C16: Walk returns the error of the first field, in depth-first declaration
\* order, that fails; that field and every field after it are left as they
\* were.
C16_FirstErrorStops ==
    (Walked /\ cfgType \in OrderTypes) =>
        IF FailingLeaves = {} THEN walkErr = NoErr
        ELSE /\ walkErr = Err("syntax", EnvVars[FirstFailing.key])
             /\ \A j \in FirstFailing.top..Len(cfgType.fields) : cfg[j] = Before[j]

\* a failing leaf in a nested struct after a leaf that parsed, with a later
\* top-level field that would fail too
C16_NestedCase ==
    /\ Walked
    /\ Len(Leaves(cfgType)) = 3
    /\ initMode = "always"
    /\ Before # Zero(cfgType)
    /\ DOMAIN EnvVars = WalkKeysFor(cfgType)
    /\ EnvVars[Leaves(cfgType)[1].key] = <<"7">>
    /\ EnvVars[Leaves(cfgType)[2].key] = <<"a">>
    /\ EnvVars[Leaves(cfgType)[3].key] = <<"a", ",", "7">>
    /\ walkErr = Err("syntax", <<"a">>)
    /\ cfg = Before

C16_Witness ==
    /\ Walked
    /\ cfgType = StructT(<<TField(Port, IntT, NoTags), TField(ValueName, StringT, NoTags)>>)
    /\ initMode = "always"
    /\ Before = <<5, PresetKey>>
    /\ DOMAIN EnvVars = {ToUpper(Port), ToUpper(ValueName)}
    /\ EnvVars[ToUpper(Port)] = <<"a">>
    /\ EnvVars[ToUpper(ValueName)] = <<"7">>
    /\ walkErr = Err("syntax", <<"a">>)
    /\ cfg = Before

----------------------------------------------------------------------------
(* The two spellings of a reserved option                                  *)

\* C17: a field carrying a reserved option as a standalone tag and the same
\* field carrying it as an option of the env tag give the same result: what
\* a walk of one leaves behind is something a walk of the other, over the
\* same record and the same loaded mapping, can leave behind.
C17_SpellingsAgree ==
    (Walked /\ cfgType \in TwinTypes) =>
        Outcome(cfg, walkErr) \in walkStruct(Before, TwinOf(cfgType), <<>>)

----------------------------------------------------------------------------
(* Ignored fields                                                          *)

\* the field is marked ignored in one of the three ways
MarkedIgnored(f) ==
    \/ ignoreTag \in DOMAIN f.Tag
    \/ /\ TagName \in DOMAIN f.Tag
       /\ \/ f.Tag[TagName].Value = Dash
          \/ ignoreTag \in DOMAIN f.Tag[TagName].Options
IgnoredFields == {i \in 1..Len(cfgType.fields) : MarkedIgnored(cfgType.fields[i])}

\* C19: a field marked ignored holds after the walk what it held before, and
\* causes no error, whatever is loaded and also when it is marked required or
\* notempty.
C19_IgnoredUntouched ==
    Walked =>
        /\ \A i \in IgnoredFields : cfg[i] = Before[i]
        /\ IgnoredFields = 1..Len(cfgType.fields) => walkErr = NoErr

C19_Witness ==
    /\ Walked
    /\ cfgType = StructT(<<TField(ValueName, StringT,
                                  Override(EnvTag(Dash, NoOptions), OneTag(NotEmptyTag, True)))>>)
    /\ initMode = "always"
    /\ Before = <<PresetKey>>
    /\ DOMAIN EnvVars = {ToUpper(ValueName), Dash}
    /\ EnvVars[ToUpper(ValueName)] = <<>>
    /\ EnvVars[Dash] = <<"a">>
    /\ cfg = Before
    /\ walkErr = NoErr

\* an ignored field that is required, with nothing loaded
C19_RequiredCase ==
    /\ Walked
    /\ cfgType = StructT(<<TField(ValueName, StringT,
                                  Override(OneTag(ignoreTag, True), OneTag(RequiredTag, True)))>>)
    /\ DOMAIN EnvVars = {}
    /\ cfg = Before
    /\ walkErr = NoErr

\* an ignored int whose key holds a non-number, before a field that is set
C19_SkippedThenSet ==
    /\ Walked
    /\ cfgType = StructT(<<TField(Port, IntT, OneTag(ignoreTag, True)),
                           TField(ValueName, StringT, NoTags)>>)
    /\ initMode = "always"
    /\ Before = <<5, PresetKey>>
    /\ ToUpper(Port) \in DOMAIN EnvVars /\ EnvVars[ToUpper(Port)] = <<"a">>
    /\ ToUpper(ValueName) \in DOMAIN EnvVars /\ EnvVars[ToUpper(ValueName)] = <<"7">>
    /\ cfg = <<5, <<"7">>>>
    /\ walkErr = NoErr

----------------------------------------------------------------------------
(* Decoder-backed fields whose key is not loaded                           *)

\* decode-unset is enabled for the field by its tag, by the env option or by
\* the option of the walker
DecodeUnsetEnabled ==
    \/ decodeUnsetTag \in DOMAIN TheField.Tag
    \/ (TagName \in DOMAIN TheField.Tag /\ decodeUnsetTag \in DOMAIN TheField.Tag[TagName].Options)
    \/ decodeUnset
KeyAbsentNoDefault ==
    /\ cfgType \in DecoderTypes
    /\ DOMAIN EnvVars = {}
    /\ DefaultTag \notin DOMAIN TheField.Tag
Impl == TheField.Type.impl

\* C20: with no key of a decoder-backed field loaded and no default, the
\* decoder is invoked, once and with the empty string, when decode-unset is
\* enabled by the tag, by the env option or by the option of the walker, and
\* is not invoked when it is not enabled.
C20_DecodeUnset ==
    (Walked /\ KeyAbsentNoDefault) =>
        /\ (Impl = "unmarshalError")
              => (walkErr = Err("error", <<>>) <=> DecodeUnsetEnabled)
        /\ (Impl # "unmarshalError" /\ FieldMode = "always")
              => cfg[1].decoded = (IF DecodeUnsetEnabled THEN << <<>> >> ELSE <<>>)

----------------------------------------------------------------------------
(* Termination of the slice loop                                           *)

\* The loaded keys name no index beyond 2, so a loop of walkSlice that gets
\* to index MaxIndex has appended elements no loaded key stands for, and
\* would go on doing so: the walk reports it as the outcome "unbounded".
\* C23: Walk terminates for every loaded mapping, also when the slice field
\* or a field of its element type has a default or the slice's own key is
\* loaded empty.
C23_WalkTerminates == Walked => walkErr.kind # "unbounded"

----------------------------------------------------------------------------
(* Fields nothing was loaded for                                           *)

LeafValue(rec, leaf) == IF leaf.sub = 0 THEN rec[leaf.top] ELSE rec[leaf.top][leaf.sub]

\* C24: after a walk without error every field for which nothing is loaded
\* (and that has no default and no decoder) holds what it held before, in
\* every init mode, also a sub-field of a struct field one of whose other
\* sub-fields is loaded.
C24_UnresolvedKept ==
    (Walked /\ walkErr = NoErr /\ cfgType \in OrderTypes) =>
        \A n \in 1..Len(Leaves(cfgType)) :
            Leaves(cfgType)[n].key \notin DOMAIN EnvVars =>
                LeafValue(cfg, Leaves(cfgType)[n]) = LeafValue(Before, Leaves(cfgType)[n])

----------------------------------------------------------------------------
(* Init modes and fields that are not pointers                             *)

\* what the loaded text stands for in a field of the type
ParsedAs(t, text) == IF t = IntT THEN 7 ELSE text
Parses(t, text) == t = StringT \/ text = <<"7">>

\* C25: a string or int field that is not a pointer and whose key is loaded
\* with a value holds the parsed value after the walk, in every init mode,
\* never included, set on the walker or on the field.
C25_ModeSparesValues ==
    (Walked /\ walkErr = NoErr /\ cfgType \in OrderTypes \cup InitLeafTypes) =>
        \A n \in 1..Len(Leaves(cfgType)) :
            LET leaf == Leaves(cfgType)[n]
            IN (/\ leaf.key \in DOMAIN EnvVars
                /\ EnvVars[leaf.key] # <<>>
                /\ Parses(leaf.type, EnvVars[leaf.key]))
                   => LeafValue(cfg, leaf) = ParsedAs(leaf.type, EnvVars[leaf.key])

\* the mode a field's own annotations name: always, never or values as the
\* value of the init tag or of the init option of the env tag
LocalMode(f) ==
    LET known == {AlwaysLit, NeverLit, ValuesLit}
        name(l) == IF l = AlwaysLit THEN "always"
                   ELSE IF l = NeverLit THEN "never" ELSE "values"
    IN IF TagName \in DOMAIN f.Tag /\ initTag \in DOMAIN f.Tag[TagName].Options
          /\ f.Tag[TagName].Options[initTag] \in known
       THEN name(f.Tag[TagName].Options[initTag])
       ELSE IF initTag \in DOMAIN f.Tag /\ f.Tag[initTag].Value \in known
       THEN name(f.Tag[initTag].Value)
       ELSE "none"

AppliedMode(f) == IF LocalMode(f) # "none" THEN LocalMode(f) ELSE initMode

\* a pointer field that was nil before the walk shows its applied mode, and
\* so does every pointer field of what it points to
RECURSIVE PtrObeys(_, _)
PtrObeys(f, v) ==
    /\ AppliedMode(f) = "never" => v.nil
    /\ AppliedMode(f) = "always" => ~v.nil
    /\ AppliedMode(f) = "values" => (~v.nil => ~IsZeroValue(f.Type.elem, v.v))
    /\ (~v.nil /\ f.Type.elem.kind = "struct") =>
          \A i \in 1..Len(f.Type.elem.fields) :
              f.Type.elem.fields[i].Type.kind = "ptr"
                  => PtrObeys(f.Type.elem.fields[i], v.v[i])

KeyOfForm(key, prefix, k, suffix) ==
    ToLower(key) = ToLower(prefix) \o <<"_">> \o k \o ToLower(suffix)

IndexSuffixes(key) ==
    {<<"_">> \o SubSeq(key, n, Len(key)) :
        n \in {m \in 1..Len(key) : \A j \in m..Len(key) : IsDigit(key[j])}}

FieldSuffixes == {<<"_">> \o n : n \in ElemNames}

\* the suffixes a key backing a map key can end in, by the map's element kind
BackingSuffixes(key) ==
    CASE path[1].Type.elem.kind = "struct" -> FieldSuffixes
      [] path[1].Type.elem.kind = "slice"  -> IndexSuffixes(key)
      [] OTHER -> {<<>>}

\* C30: every map key k that GetMapKeys returns is non-empty and some loaded
\* key is the map's prefix, "_", k and, for a map of slices, "_" and an
\* index, for a map of structs, "_" and a name of an element field.
C30_KeysBackedExactly ==
    Enumerated =>
        \A k \in mapKeys :
            /\ k # <<>>
            /\ \E key \in DOMAIN EnvVars : \E suffix \in BackingSuffixes(key) :
                  KeyOfForm(key, MapName, k, suffix)

====
